---- MODULE Spec2Model ----
(***************************************************************************)
(* Model of the selector-overlap and style-conflict detection engine of    *)
(* textual_mcp (src/src/textual_mcp/validators/conflict_detector.py).      *)
(*                                                                         *)
(* A selector string is a sequence of one-character strings, so that the   *)
(* character scan of _parse_selector_parts is modelled character by        *)
(* character.  A property map (a Python dict) is a function from property  *)
(* names to values.  Python's None is the string "none".                   *)
(***************************************************************************)
EXTENDS Integers, Sequences, FiniteSets, TLC

VARIABLES
    props1, props2,          \* the property maps of the two rules handed to detect_conflicts
    conflicts,               \* the list detect_conflicts returned
    detected,                \* detect_conflicts has returned
    selector1, npieces,      \* first selector under construction, number of pieces typed
    selector2,               \* second selector handed to analyze_overlap
    overlap_type,            \* result of analyze_overlap(selector1, selector2)
    analyzed,                \* analyze_overlap has returned
    selectors,               \* the list handed to find_overlapping_groups
    overlaps,                \* the list of SelectorOverlap it returned
    grouped,                 \* find_overlapping_groups has returned
    scored,                  \* "no", or which specificity call returned: "plain", "class", "id"
    extended,                \* selector1 with a class or an id appended
    specificity,             \* _calculate_specificity(selector1)
    specificity_ext,         \* _calculate_specificity(extended)
    stylesheet,              \* the rules the stylesheet parser yields, in order
    raised,                  \* the exception raised inside analyze_conflicts, if any
    status,                  \* "idle", or how analyze_conflicts ended: "done", "parse_error", "error"
    result,                  \* the ConflictAnalysisResult analyze_conflicts returned
    summary,                 \* result.summary
    property_names,          \* the list handed to categorize_conflicts
    categories,              \* the dictionary categorize_conflicts returned
    categorize_returned,     \* categorize_conflicts has returned
    style_conflict,          \* the StyleConflict handed to suggest_resolution
    suggestion,              \* the text suggest_resolution returned, as the list of its sentences
    suggested,               \* suggest_resolution has returned
    css_content,             \* the rules of the stylesheet text handed to the detect_style_conflicts tool
    response,                \* the dictionary the tool returned
    tool_returned,           \* the tool has returned
    calls,                   \* per thread, the analyze_conflicts call in progress: its position, its input, its result object
    returned,                \* the inputs and results of the calls that have returned, in order
    constructed,             \* LRUCache(max_size, ttl) has been constructed
    max_size,                \* LRUCache.max_size
    ttl,                     \* LRUCache.ttl: "none" or "set"
    lru,                     \* LRUCache._cache: the entries of the OrderedDict, oldest position first
    lock,                    \* LRUCache._lock: 0 when free, else the thread that holds it
    putting,                 \* the put in progress under the lock
    uses,                    \* the keys of the puts and get hits so far, in order
    last_put,                \* what the last finished put did
    wrapper,                 \* per thread, the call of the cached function in progress
    completed,               \* the arguments for which a call has returned
    executions,              \* how often the wrapped function ran, per argument
    scan_input,              \* the selector handed to _parse_selector_parts, typed character by character
    scan_rest,               \* the tokens the for loop has still to visit
    space_part,              \* the compound token being scanned
    scan_pc,                 \* "typing", "for" between tokens, "while" inside the scan, "returned"
    scan_i,                  \* the scan index i (1-based)
    scan_prev,               \* the scan index before the last iteration of the while loop
    scan_type,               \* the type name accumulated so far
    scan_parts,              \* the parts collected so far
    iterations               \* iterations of the while loop over the current token so far

vars == <<props1, props2, conflicts, detected, selector1, npieces, selector2,
          overlap_type, analyzed, selectors, overlaps, grouped,
          scored, extended, specificity, specificity_ext,
          stylesheet, raised, status, result, summary,
          property_names, categories, categorize_returned,
          style_conflict, suggestion, suggested,
          css_content, response, tool_returned,
          calls, returned,
          constructed, max_size, ttl, lru, lock, putting, uses, last_put,
          wrapper, completed, executions,
          scan_input, scan_rest, space_part, scan_pc, scan_i, scan_prev, scan_type, scan_parts, iterations>>

conflictVars == <<props1, props2, conflicts, detected>>
overlapVars  == <<selector1, npieces, selector2, overlap_type, analyzed>>
groupVars    == <<selectors, overlaps, grouped>>
scoreVars    == <<scored, extended, specificity, specificity_ext>>
analysisVars == <<stylesheet, raised, status, result, summary>>
categoryVars == <<property_names, categories, categorize_returned>>
suggestVars == <<style_conflict, suggestion, suggested>>
toolVars == <<css_content, response, tool_returned>>
callVars == <<calls, returned>>
lruVars == <<constructed, max_size, ttl, lru, lock, putting, uses, last_put>>
wrapperVars == <<wrapper, completed, executions>>
scanVars == <<scan_input, scan_rest, space_part, scan_pc, scan_i, scan_prev, scan_type, scan_parts, iterations>>

(***************************************************************************)
(* Bounds                                                                  *)
(***************************************************************************)
MaxProps     == 2      \* declarations per rule
MaxPieces    == 3      \* pieces typed into selector1
MaxSelectors == 3      \* length of the list handed to find_overlapping_groups
MaxRules     == 4      \* rules of the stylesheet handed to analyze_conflicts
MaxCalls     == 3      \* calls of analyze_conflicts on one ConflictDetector

\* the threads that call analyze_conflicts on the one ConflictDetector
Threads == {1, 2}

\* the arguments the cached function is called with
WrappedArgs == {"p", "q"}

(***************************************************************************)
(* Generic helpers                                                         *)
(***************************************************************************)
Range(seq) == {seq[k] : k \in 1..Len(seq)}

\* A list holding the elements of a set once each (list(set(...))); the
\* order of a Python set is unspecified and nothing below depends on it.
RECURSIVE SetToSeq(_)
SetToSeq(S) ==
    IF S = {} THEN <<>>
    ELSE LET x == CHOOSE y \in S : TRUE IN <<x>> \o SetToSeq(S \ {x})

(***************************************************************************)
(* SelectorOverlapAnalyzer._parse_selector_parts                           *)
(***************************************************************************)
EmptyParts ==
    [types |-> {}, classes |-> {}, ids |-> {}, pseudos |-> {}, attributes |-> {}]

PartKeys == {"types", "classes", "ids", "pseudos", "attributes"}

\* selector.replace(">", " ").replace("+", " ").replace("~", " ")
ReplaceCombinators(selector) ==
    [k \in 1..Len(selector) |->
        IF selector[k] \in {">", "+", "~"} THEN " " ELSE selector[k]]

\* str.split(): the maximal runs of non-blank characters, in order
RECURSIVE SplitFrom(_, _, _)
SplitFrom(s, k, cur) ==
    IF k > Len(s) THEN (IF cur = <<>> THEN <<>> ELSE <<cur>>)
    ELSE IF s[k] = " "
         THEN (IF cur = <<>> THEN <<>> ELSE <<cur>>) \o SplitFrom(s, k + 1, <<>>)
         ELSE SplitFrom(s, k + 1, Append(cur, s[k]))

Split(s) == SplitFrom(s, 1, <<>>)

Terminators == {".", "#", ":", "["}

\* The inner "while j < len(space_part) and space_part[j] not in '.#:['"
\* loop; positions are 1-based here, so the result is the first position
\* at or after j holding a terminator, or Len + 1.
RECURSIVE NameEnd(_, _)
NameEnd(part, j) ==
    IF j <= Len(part) /\ part[j] \notin Terminators THEN NameEnd(part, j + 1) ELSE j

\* space_part.find("]", i): first position at or after i holding "]", 0 if none
RECURSIVE FindClose(_, _)
FindClose(part, i) ==
    IF i > Len(part) THEN 0
    ELSE IF part[i] = "]" THEN i ELSE FindClose(part, i + 1)

\* part[i+1 : j] of the code, as 1-based positions from..to-1
Slice(part, from, to) == SubSeq(part, from, to - 1)

\* "if current_type: parts['types'].add(current_type)"
FlushType(parts, current_type) ==
    IF current_type # <<>>
    THEN [parts EXCEPT !.types = @ \cup {current_type}]
    ELSE parts

\* The "while i < len(space_part)" scan of one compound token.
RECURSIVE ScanPart(_, _, _, _)
ScanPart(part, i, current_type, parts) ==
    IF i > Len(part) THEN FlushType(parts, current_type)
    ELSE LET char == part[i] IN
      CASE char = "#" ->
            LET j == NameEnd(part, i + 1) IN
            ScanPart(part, j, <<>>,
                [FlushType(parts, current_type) EXCEPT !.ids = @ \cup {Slice(part, i + 1, j)}])
        [] char = "." ->
            LET j == NameEnd(part, i + 1) IN
            ScanPart(part, j, <<>>,
                [FlushType(parts, current_type) EXCEPT !.classes = @ \cup {Slice(part, i + 1, j)}])
        [] char = ":" ->
            IF i + 1 <= Len(part) /\ part[i + 1] = ":"
            THEN \* pseudo-element: skipped
                 ScanPart(part, NameEnd(part, i + 2), <<>>, FlushType(parts, current_type))
            ELSE LET j == NameEnd(part, i + 1) IN
                 ScanPart(part, j, <<>>,
                    [FlushType(parts, current_type) EXCEPT !.pseudos = @ \cup {Slice(part, i + 1, j)}])
        [] char = "[" ->
            LET j == FindClose(part, i) IN
            IF j # 0
            THEN ScanPart(part, j + 1, <<>>,
                    [FlushType(parts, current_type) EXCEPT !.attributes = @ \cup {Slice(part, i, j + 1)}])
            ELSE ScanPart(part, i + 1, <<>>, FlushType(parts, current_type))
        [] OTHER ->
            ScanPart(part, i + 1, Append(current_type, char), parts)

\* the loop over the tokens with the parts created anew for every token
RECURSIVE ScanPartsResetting(_, _, _)
ScanPartsResetting(space_parts, k, parts) ==
    IF k > Len(space_parts) THEN parts
    ELSE ScanPartsResetting(space_parts, k + 1, ScanPart(space_parts[k], 1, <<>>, EmptyParts))

\* "for space_part in space_parts"
RECURSIVE ScanParts(_, _, _)
ScanParts(space_parts, k, parts) ==
    IF k > Len(space_parts) THEN parts
    ELSE ScanParts(space_parts, k + 1, ScanPart(space_parts[k], 1, <<>>, parts))

parse_selector_parts(selector) ==
    ScanParts(Split(ReplaceCombinators(selector)), 1, EmptyParts)

(***************************************************************************)
(* SelectorOverlapAnalyzer._is_subset, _has_partial_overlap,               *)
(* analyze_overlap                                                         *)
(***************************************************************************)
is_subset(parts1, parts2) ==
    LET has_content == \E key \in PartKeys : parts1[key] # {}
        all_contained ==
            \A key \in PartKeys : parts1[key] # {} => parts1[key] \subseteq parts2[key]
        parts2_has_more ==
            \E key \in PartKeys : Cardinality(parts2[key]) > Cardinality(parts1[key])
    IN  IF ~all_contained THEN FALSE
        ELSE IF has_content THEN parts2_has_more
        ELSE FALSE

\* has_partial_overlap with one shared class name counting as an overlap
has_partial_overlap_one_class(parts1, parts2) ==
    IF parts1.types \cap parts2.types # {} THEN TRUE
    ELSE IF parts1.ids \cap parts2.ids # {} THEN TRUE
    ELSE IF Cardinality(parts1.classes \cap parts2.classes) >= 1 THEN TRUE
    ELSE FALSE

has_partial_overlap(parts1, parts2) ==
    IF parts1.types \cap parts2.types # {} THEN TRUE
    ELSE IF parts1.ids \cap parts2.ids # {} THEN TRUE
    ELSE IF Cardinality(parts1.classes \cap parts2.classes) >= 2 THEN TRUE
    ELSE FALSE

\* analyze_overlap without the comparison of the two strings
analyze_overlap_no_identity(sel1, sel2) ==
    LET s1_parts == parse_selector_parts(sel1)
        s2_parts == parse_selector_parts(sel2)
    IN  IF is_subset(s1_parts, s2_parts) THEN "subset"
        ELSE IF is_subset(s2_parts, s1_parts) THEN "subset"
        ELSE IF has_partial_overlap(s1_parts, s2_parts) THEN "partial"
        ELSE "none"

\* analyze_overlap testing the subset relation in one direction only
analyze_overlap_one_direction(sel1, sel2) ==
    IF sel1 = sel2 THEN "exact"
    ELSE LET s1_parts == parse_selector_parts(sel1)
             s2_parts == parse_selector_parts(sel2)
         IN  IF is_subset(s1_parts, s2_parts) THEN "subset"
             ELSE IF has_partial_overlap(s1_parts, s2_parts) THEN "partial"
             ELSE "none"

analyze_overlap(sel1, sel2) ==
    IF sel1 = sel2 THEN "exact"
    ELSE LET s1_parts == parse_selector_parts(sel1)
             s2_parts == parse_selector_parts(sel2)
         IN  IF is_subset(s1_parts, s2_parts) THEN "subset"
             ELSE IF is_subset(s2_parts, s1_parts) THEN "subset"
             ELSE IF has_partial_overlap(s1_parts, s2_parts) THEN "partial"
             ELSE "none"

(***************************************************************************)
(* SelectorOverlapAnalyzer._calculate_specificity                          *)
(***************************************************************************)
\* _calculate_specificity with the type count floored at 1 for a non-empty selector
calculate_specificity_floored(selector) ==
    LET parts == parse_selector_parts(selector)
        id_count == Cardinality(parts.ids)
        class_count == Cardinality(parts.classes) + Cardinality(parts.attributes)
                       + Cardinality(parts.pseudos)
        type_count == Cardinality(parts.types)
    IN  IF id_count > 0 \/ class_count > 0 \/ type_count > 0
        THEN <<id_count, class_count, IF type_count > 1 THEN type_count ELSE 1>>
        ELSE <<id_count, class_count, type_count>>

\* _calculate_specificity leaving the pseudo-classes out of the class count
calculate_specificity_without_pseudos(selector) ==
    LET parts == parse_selector_parts(selector)
        id_count == Cardinality(parts.ids)
        class_count == Cardinality(parts.classes) + Cardinality(parts.attributes)
        type_count == Cardinality(parts.types)
    IN  <<id_count, class_count, type_count>>

calculate_specificity(selector) ==
    LET parts == parse_selector_parts(selector)
        id_count == Cardinality(parts.ids)
        class_count == Cardinality(parts.classes) + Cardinality(parts.attributes)
                       + Cardinality(parts.pseudos)
        type_count == Cardinality(parts.types)
    IN  <<id_count, class_count, type_count>>

(***************************************************************************)
(* SelectorOverlapAnalyzer.find_overlapping_groups                         *)
(***************************************************************************)
\* "Determine overall overlap type"
overall_type(overlap_types) ==
    IF "exact" \in overlap_types THEN "exact"
    ELSE IF "subset" \in overlap_types THEN "subset"
    ELSE "partial"

\* a SelectorOverlap whose scores are all that of the group's first selector
SelectorOverlap_first_score(overlap_group, type) ==
    [selectors |-> overlap_group,
     overlap_type |-> type,
     specificity_scores |->
        [k \in 1..Len(overlap_group) |-> calculate_specificity(overlap_group[1])]]

SelectorOverlap(overlap_group, type) ==
    [selectors |-> overlap_group,
     overlap_type |-> type,
     specificity_scores |->
        [k \in 1..Len(overlap_group) |-> calculate_specificity(overlap_group[k])]]

\* "for j, sel2 in enumerate(selectors[i + 1:], i + 1)": the state of the
\* loop is the group, the overlap types seen and the processed set.
RECURSIVE ScanLater(_, _, _, _)
ScanLater(sels, sel1, j, acc) ==
    IF j > Len(sels) THEN acc
    ELSE LET sel2 == sels[j]
             type == analyze_overlap(sel1, sel2)
         IN  IF type # "none"
             THEN ScanLater(sels, sel1, j + 1,
                    [overlap_group |-> Append(acc.overlap_group, sel2),
                     overlap_types |-> acc.overlap_types \cup {type},
                     processed     |-> acc.processed \cup {sel2}])
             ELSE ScanLater(sels, sel1, j + 1, acc)

\* "for i, sel1 in enumerate(selectors)"
RECURSIVE GroupFrom(_, _, _, _)
GroupFrom(sels, i, found, processed) ==
    IF i > Len(sels) THEN found
    ELSE LET sel1 == sels[i] IN
         IF sel1 \in processed THEN GroupFrom(sels, i + 1, found, processed)
         ELSE LET acc == ScanLater(sels, sel1, i + 1,
                            [overlap_group |-> <<sel1>>,
                             overlap_types |-> {},
                             processed     |-> processed])
                  found2 ==
                    IF Len(acc.overlap_group) > 1
                    THEN Append(found,
                            SelectorOverlap(acc.overlap_group, overall_type(acc.overlap_types)))
                    ELSE found
              IN  GroupFrom(sels, i + 1, found2, acc.processed \cup {sel1})

find_overlapping_groups(sels) == GroupFrom(sels, 1, <<>>, {})

(***************************************************************************)
(* PropertyConflictDetector                                                *)
(***************************************************************************)
\* self.shorthand_expansions, and the order in which the dict lists its keys
shorthand_expansions ==
    [margin  |-> <<"margin-top", "margin-right", "margin-bottom", "margin-left">>,
     padding |-> <<"padding-top", "padding-right", "padding-bottom", "padding-left">>,
     border  |-> <<"border-width", "border-style", "border-color">>,
     offset  |-> <<"offset-x", "offset-y">>]

shorthand_order == <<"margin", "padding", "border", "offset">>

\* dict[key] = value
Put(map, key, value) ==
    [n \in DOMAIN map \cup {key} |-> IF n = key THEN value ELSE map[n]]

\* "for longhand in self.shorthand_expansions[prop]"
RECURSIVE ExpandLonghands(_, _, _, _)
ExpandLonghands(longhands, k, value, expanded) ==
    IF k > Len(longhands) THEN expanded
    ELSE ExpandLonghands(longhands, k + 1, value,
            IF longhands[k] \notin DOMAIN expanded
            THEN Put(expanded, longhands[k], value)
            ELSE expanded)

\* "for prop, value in properties.items()"
RECURSIVE ExpandFrom(_, _, _, _)
ExpandFrom(properties, items, k, expanded) ==
    IF k > Len(items) THEN expanded
    ELSE LET prop == items[k] IN
         ExpandFrom(properties, items, k + 1,
            IF prop \in DOMAIN shorthand_expansions
            THEN ExpandLonghands(shorthand_expansions[prop], 1, properties[prop], expanded)
            ELSE expanded)

expand_properties(properties) ==
    ExpandFrom(properties, SetToSeq(DOMAIN properties), 1, properties)

\* the longhands of one shorthand that the other rule declares, in order
RECURSIVE LonghandsIn(_, _, _)
LonghandsIn(longhands, k, props) ==
    IF k > Len(longhands) THEN <<>>
    ELSE (IF longhands[k] \in DOMAIN props THEN <<longhands[k]>> ELSE <<>>)
         \o LonghandsIn(longhands, k + 1, props)

\* _check_shorthand_conflicts looking only for a shorthand in the first rule
RECURSIVE ShorthandConflictsFirstOnly(_, _, _)
ShorthandConflictsFirstOnly(k, p1, p2) ==
    IF k > Len(shorthand_order) THEN <<>>
    ELSE LET shorthand == shorthand_order[k]
             longhands == shorthand_expansions[shorthand]
         IN  (IF shorthand \in DOMAIN p1 THEN LonghandsIn(longhands, 1, p2) ELSE <<>>)
             \o ShorthandConflictsFirstOnly(k + 1, p1, p2)

check_shorthand_conflicts_first_only(p1, p2) == ShorthandConflictsFirstOnly(1, p1, p2)

\* "for shorthand, longhands in self.shorthand_expansions.items()"
RECURSIVE ShorthandConflictsFrom(_, _, _)
ShorthandConflictsFrom(k, p1, p2) ==
    IF k > Len(shorthand_order) THEN <<>>
    ELSE LET shorthand == shorthand_order[k]
             longhands == shorthand_expansions[shorthand]
         IN  (IF shorthand \in DOMAIN p1 THEN LonghandsIn(longhands, 1, p2) ELSE <<>>)
             \o (IF shorthand \in DOMAIN p2 THEN LonghandsIn(longhands, 1, p1) ELSE <<>>)
             \o ShorthandConflictsFrom(k + 1, p1, p2)

check_shorthand_conflicts(p1, p2) == ShorthandConflictsFrom(1, p1, p2)

\* "for prop in expanded_props1": the direct conflicts, in order
RECURSIVE DirectConflicts(_, _, _, _)
DirectConflicts(items, k, expanded_props1, expanded_props2) ==
    IF k > Len(items) THEN <<>>
    ELSE LET prop == items[k] IN
         (IF prop \in DOMAIN expanded_props2
             /\ expanded_props1[prop] # expanded_props2[prop]
          THEN <<prop>> ELSE <<>>)
         \o DirectConflicts(items, k + 1, expanded_props1, expanded_props2)

\* rule.get("properties", {})
EmptyMap == [n \in {} |-> ""]

GetProperties(rule) ==
    IF "properties" \in DOMAIN rule THEN rule.properties ELSE EmptyMap

\* the list before "list(set(conflicts))"
ConflictList(rule1, rule2) ==
    LET p1 == GetProperties(rule1)
        p2 == GetProperties(rule2)
        expanded_props1 == expand_properties(p1)
        expanded_props2 == expand_properties(p2)
    IN  DirectConflicts(SetToSeq(DOMAIN expanded_props1), 1, expanded_props1, expanded_props2)
        \o check_shorthand_conflicts(p1, p2)

\* detect_conflicts returning the list without removing duplicates
detect_conflicts_keeping_duplicates(rule1, rule2) == ConflictList(rule1, rule2)

detect_conflicts(rule1, rule2) == SetToSeq(Range(ConflictList(rule1, rule2)))

(***************************************************************************)
(* ConflictAnalysisResult and its derived summary                          *)
(***************************************************************************)
\* ConflictAnalysisResult(): every field at its default
EmptyResult ==
    [conflicts |-> <<>>,
     overlapping_selectors |-> <<>>,
     resolution_suggestions |-> <<>>,
     property_conflicts |-> [n \in {} |-> <<>>],
     specificity_issues |-> <<>>]

\* the summary property with has_issues looking at the conflicts only
summary_of_conflicts_only(res) ==
    [total_conflicts |-> Len(res.conflicts),
     total_overlaps |-> Len(res.overlapping_selectors),
     has_issues |-> Len(res.conflicts) > 0,
     total_specificity_issues |-> Len(res.specificity_issues)]

summary_of(res) ==
    [total_conflicts |-> Len(res.conflicts),
     total_overlaps |-> Len(res.overlapping_selectors),
     has_issues |-> Len(res.conflicts) > 0 \/ Len(res.overlapping_selectors) > 0,
     total_specificity_issues |-> Len(res.specificity_issues)]

(***************************************************************************)
(* The initial state: nothing has been handed to the engine yet.           *)
(***************************************************************************)
Init ==
    /\ props1 = EmptyMap /\ props2 = EmptyMap
    /\ conflicts = <<>> /\ detected = FALSE
    /\ selector1 = <<>> /\ npieces = 0 /\ selector2 = <<>>
    /\ overlap_type = "none" /\ analyzed = FALSE
    /\ selectors = <<>> /\ overlaps = <<>> /\ grouped = FALSE
    /\ scored = "no" /\ extended = <<>>
    /\ specificity = <<0, 0, 0>> /\ specificity_ext = <<0, 0, 0>>
    /\ stylesheet = <<>> /\ status = "idle"
    /\ raised = [kind |-> "none", message |-> ""]
    /\ result = EmptyResult /\ summary = summary_of(EmptyResult)
    /\ property_names = <<>> /\ categories = [n \in {} |-> <<>>] /\ categorize_returned = FALSE
    /\ style_conflict = [selector1 |-> <<>>, selector2 |-> <<>>, conflicting_properties |-> <<>>, specificity1 |-> <<0, 0, 0>>, specificity2 |-> <<0, 0, 0>>]
    /\ suggestion = <<>> /\ suggested = FALSE
    /\ css_content = <<>> /\ response = [n \in {} |-> <<>>] /\ tool_returned = FALSE
    /\ calls = [t \in Threads |-> [pc |-> "idle", rules |-> <<>>, result |-> EmptyResult]]
    /\ returned = <<>>
    /\ constructed = FALSE /\ max_size = 0 /\ ttl = "none" /\ lru = <<>> /\ lock = 0
    /\ putting = [key |-> "none", keys_before |-> {}, lru_before |-> "none"]
    /\ uses = <<>>
    /\ last_put = [key |-> "none", new |-> FALSE, full_before |-> FALSE, evicted |-> {}, lru_before |-> "none"]
    /\ wrapper = [t \in Threads |-> [pc |-> "idle", arg |-> "none", late |-> FALSE, result |-> "none"]]
    /\ completed = {} /\ executions = [a \in WrappedArgs |-> 0]
    /\ scan_input = <<>> /\ scan_rest = <<>> /\ space_part = <<>>
    /\ scan_pc = "typing" /\ scan_i = 1 /\ scan_prev = 0
    /\ scan_type = <<>> /\ scan_parts = EmptyParts /\ iterations = 0

(***************************************************************************)
(* Pairwise overlap: a caller types selector1 piece by piece and then      *)
(* calls analyze_overlap(selector1, selector2).                            *)
(***************************************************************************)
\* The fragments a selector is typed from: type names, classes, an id, a
\* pseudo-class, an attribute predicate, an unterminated bracket, a blank.
Pieces ==
    { <<"B">>, <<"L">>, <<".", "p">>, <<".", "q">>, <<"#", "m">>,
      <<":", "h">>, <<"[", "a", "]">>, <<"[">>, <<" ">> }

\* The second selectors tried against selector1 (besides selector1 itself).
Probes ==
    { <<>>, <<"B">>, <<"L">>, <<"B", ".", "p">>, <<"B", ".", "q">>,
      <<"L", ".", "p", ".", "q">>, <<"B", ".", "p", ".", "q">>,
      <<"#", "m">>, <<"#", "m", ".", "p">>, <<"B", " ", "L">>, <<"L", ">", "B">>,
      <<"B", " ">>, <<".", "p">>, <<":", "h">>, <<"[">>, <<"B", "[", "a", "]">>,
      <<".">>, <<"B", ":", ":", "e">> }

TypePiece(p) ==
    /\ ~analyzed
    /\ scored = "no"
    /\ npieces < MaxPieces
    /\ selector1' = selector1 \o p
    /\ npieces' = npieces + 1
    /\ UNCHANGED <<selector2, overlap_type, analyzed, conflictVars, groupVars, scoreVars, analysisVars, categoryVars, suggestVars, toolVars, callVars, lruVars, wrapperVars, scanVars>>

AnalyzeOverlap(sel2) ==
    /\ ~analyzed
    /\ selector2' = sel2
    /\ overlap_type' = analyze_overlap(selector1, sel2)
    /\ analyzed' = TRUE
    /\ UNCHANGED <<selector1, npieces, conflictVars, groupVars, scoreVars, analysisVars, categoryVars, suggestVars, toolVars, callVars, lruVars, wrapperVars, scanVars>>

\* analyze_overlap(s, s)
AnalyzeSelf == AnalyzeOverlap(selector1)

NextOverlap ==
    \/ \E p \in Pieces : TypePiece(p)
    \/ \E sel2 \in Probes : AnalyzeOverlap(sel2)
    \/ AnalyzeSelf

SpecOverlap == Init /\ [][NextOverlap]_vars

\* C4: analyze_overlap(s, s) is 'exact' for every selector s, the empty
\* and the malformed ones included.
IdentityOverlapIsExact ==
    (analyzed /\ selector1 = selector2) => overlap_type = "exact"

\* an unterminated bracket after a type name, compared with itself
IdentityOverlapWitness ==
    /\ analyzed
    /\ selector1 = <<"B", "[">> /\ selector2 = selector1
    /\ overlap_type = "exact"

\* C5: analyze_overlap(a, b) and analyze_overlap(b, a) return the same
\* classification.
OverlapIsSymmetric ==
    analyzed => overlap_type = analyze_overlap(selector2, selector1)

\* the subset relation holds only from the second selector to the first
OverlapSymmetryWitness ==
    /\ analyzed
    /\ selector1 # selector2
    /\ overlap_type = "subset"
    /\ ~is_subset(parse_selector_parts(selector1), parse_selector_parts(selector2))
    /\ is_subset(parse_selector_parts(selector2), parse_selector_parts(selector1))

\* The relations the overlap contract is stated in.
StrictlyNarrower(p, q) ==
    /\ \E key \in PartKeys : p[key] # {}
    /\ \A key \in PartKeys : p[key] # {} => p[key] \subseteq q[key]
    /\ \E key \in PartKeys : Cardinality(q[key]) > Cardinality(p[key])

SharesComponents(p, q) ==
    \/ p.types \cap q.types # {}
    \/ p.ids \cap q.ids # {}
    \/ Cardinality(p.classes \cap q.classes) >= 2

ContractOverlap(a, b) ==
    LET p == parse_selector_parts(a)
        q == parse_selector_parts(b)
    IN  IF StrictlyNarrower(p, q) \/ StrictlyNarrower(q, p) THEN "subset"
        ELSE IF SharesComponents(p, q) THEN "partial"
        ELSE "none"

\* C6: for two textually different selectors the result is 'subset' iff one
\* is strictly narrower than the other, otherwise 'partial' iff they share
\* a type name, an id or at least 2 class names, otherwise none; subset
\* takes precedence over partial.
OverlapClassification ==
    (analyzed /\ selector1 # selector2) =>
        overlap_type = ContractOverlap(selector1, selector2)

\* both the subset and the partial condition apply, and subset is returned
OverlapClassificationWitness ==
    /\ analyzed
    /\ selector1 # selector2
    /\ overlap_type = "subset"
    /\ SharesComponents(parse_selector_parts(selector1), parse_selector_parts(selector2))

(***************************************************************************)
(* Grouping: a caller collects a list of selectors and then calls          *)
(* find_overlapping_groups on it.  The list may repeat a selector.         *)
(***************************************************************************)
GroupPool ==
    { <<"B">>, <<"L">>, <<"B", " ", "L">>, <<"B", ".", "p">>, <<"B", ".", "q">>,
      <<"B", ".", "q", ".", "r">> }

AddSelector(s) ==
    /\ ~grouped
    /\ Len(selectors) < MaxSelectors
    /\ selectors' = Append(selectors, s)
    /\ UNCHANGED <<overlaps, grouped, conflictVars, overlapVars, scoreVars, analysisVars, categoryVars, suggestVars, toolVars, callVars, lruVars, wrapperVars, scanVars>>

FindGroups ==
    /\ ~grouped
    /\ overlaps' = find_overlapping_groups(selectors)
    /\ grouped' = TRUE
    /\ UNCHANGED <<selectors, conflictVars, overlapVars, scoreVars, analysisVars, categoryVars, suggestVars, toolVars, callVars, lruVars, wrapperVars, scanVars>>

NextGroups ==
    \/ \E s \in GroupPool : AddSelector(s)
    \/ FindGroups

SpecGroups == Init /\ [][NextGroups]_vars

\* the positions of the input list at which a selector string stands
Occurrences(s) == {k \in 1..Len(selectors) : selectors[k] = s}

\* the number of positions of group g holding s
CountIn(g, s) == Cardinality({k \in 1..Len(g.selectors) : g.selectors[k] = s})

\* C7: every selector is placed in at most one returned group.
EachSelectorInAtMostOneGroup ==
    grouped =>
        \A a, b \in 1..Len(overlaps) :
            a # b => Range(overlaps[a].selectors) \cap Range(overlaps[b].selectors) = {}

\* C8: a group's overlap_type is 'exact' only if all its selector strings
\* are textually identical.
ExactOnlyWhenIdentical ==
    grouped =>
        \A a \in 1..Len(overlaps) :
            overlaps[a].overlap_type = "exact" =>
                Cardinality(Range(overlaps[a].selectors)) = 1

Rank(type) == CASE type = "exact" -> 3 [] type = "subset" -> 2 [] type = "partial" -> 1 [] OTHER -> 0

\* the strongest of a set of relations, in the order exact > subset > partial
Strongest(types) == CHOOSE t \in types : \A u \in types : Rank(u) <= Rank(t)

\* C9: the overlap_type of a group is the strongest relation between any
\* two members of the group.
OverlapTypeIsStrongestOfAllPairs ==
    grouped =>
        \A a \in 1..Len(overlaps) :
            LET g == overlaps[a].selectors IN
            overlaps[a].overlap_type =
                Strongest({analyze_overlap(g[pr[1]], g[pr[2]]) :
                            pr \in {q \in (1..Len(g)) \X (1..Len(g)) : q[1] < q[2]}})

\* C10: any two members of a group overlap.
GroupMembersMutuallyOverlap ==
    grouped =>
        \A a \in 1..Len(overlaps) :
            LET g == overlaps[a].selectors IN
            \A k, l \in 1..Len(g) : analyze_overlap(g[k], g[l]) # "none"

(***************************************************************************)
(* Property conflicts: a caller declares properties in two rules and then  *)
(* calls detect_conflicts on them.                                         *)
(***************************************************************************)
PropNames ==
    {"margin", "margin-top", "padding", "padding-left", "border", "border-color",
     "offset", "color"}

PropValues == {"1", "2"}

Rule(props) == [properties |-> props]

Declare1(name, value) ==
    /\ ~detected
    /\ name \notin DOMAIN props1
    /\ Cardinality(DOMAIN props1) < MaxProps
    /\ props1' = Put(props1, name, value)
    /\ UNCHANGED <<props2, conflicts, detected, overlapVars, groupVars, scoreVars, analysisVars, categoryVars, suggestVars, toolVars, callVars, lruVars, wrapperVars, scanVars>>

Declare2(name, value) ==
    /\ ~detected
    /\ name \notin DOMAIN props2
    /\ Cardinality(DOMAIN props2) < MaxProps
    /\ props2' = Put(props2, name, value)
    /\ UNCHANGED <<props1, conflicts, detected, overlapVars, groupVars, scoreVars, analysisVars, categoryVars, suggestVars, toolVars, callVars, lruVars, wrapperVars, scanVars>>

DetectConflicts ==
    /\ ~detected
    /\ conflicts' = detect_conflicts(Rule(props1), Rule(props2))
    /\ detected' = TRUE
    /\ UNCHANGED <<props1, props2, overlapVars, groupVars, scoreVars, analysisVars, categoryVars, suggestVars, toolVars, callVars, lruVars, wrapperVars, scanVars>>

NextConflicts ==
    \/ \E name \in PropNames, value \in PropValues : Declare1(name, value)
    \/ \E name \in PropNames, value \in PropValues : Declare2(name, value)
    \/ DetectConflicts

SpecConflicts == Init /\ [][NextConflicts]_vars

\* C1: two rules with exactly equal property maps have no conflict.
IdenticalMapsNeverConflict ==
    (detected /\ props1 = props2) => conflicts = <<>>

\* C2: detect_conflicts(r1, r2) and detect_conflicts(r2, r1) return the
\* same set of property names.
ConflictsAreSymmetric ==
    detected => Range(conflicts) = Range(detect_conflicts(Rule(props2), Rule(props1)))

\* only the second rule declares a shorthand, the first one of its longhands
ConflictSymmetryWitness ==
    /\ detected
    /\ "margin" \in DOMAIN props2 /\ "margin" \notin DOMAIN props1
    /\ "margin-top" \in DOMAIN props1 /\ "margin-top" \notin DOMAIN props2
    /\ props1["margin-top"] = props2["margin"]
    /\ Range(conflicts) = {"margin-top"}

\* The contract of the detector.
Shorthands == DOMAIN shorthand_expansions

LonghandsOf(shorthand) == Range(shorthand_expansions[shorthand])

\* step 1: each longhand of a declared shorthand is added with the
\* shorthand's raw value, unless the longhand is declared itself
ContractExpansion(props) ==
    LET added == {l \in UNION {LonghandsOf(sh) : sh \in Shorthands \cap DOMAIN props} :
                    l \notin DOMAIN props}
    IN  [n \in DOMAIN props \cup added |->
            IF n \in DOMAIN props THEN props[n]
            ELSE props[CHOOSE sh \in Shorthands \cap DOMAIN props : n \in LonghandsOf(sh)]]

\* step 2: the names in both expanded maps with different values
ContractDirect(p1, p2) ==
    LET e1 == ContractExpansion(p1)
        e2 == ContractExpansion(p2)
    IN  {n \in DOMAIN e1 \cap DOMAIN e2 : e1[n] # e2[n]}

\* step 3: the longhands one rule declares while the other declares the shorthand
ContractCross(p1, p2) ==
    {l \in UNION {LonghandsOf(sh) : sh \in Shorthands} :
        \E sh \in Shorthands :
            /\ l \in LonghandsOf(sh)
            /\ \/ sh \in DOMAIN p1 /\ l \in DOMAIN p2
               \/ sh \in DOMAIN p2 /\ l \in DOMAIN p1}

NoDuplicates(seq) == \A k, l \in 1..Len(seq) : k # l => seq[k] # seq[l]

\* C3: the returned list holds exactly the names of step 2 and of step 3,
\* each once.
ConflictsAreDirectAndCross ==
    detected =>
        /\ Range(conflicts) = ContractDirect(props1, props2) \cup ContractCross(props1, props2)
        /\ NoDuplicates(conflicts)

\* Scenario C with a name that both steps find: a shorthand against one of
\* its longhands with another value
ConflictsDirectAndCrossWitness ==
    /\ detected
    /\ "margin-top" \in ContractDirect(props1, props2) \cap ContractCross(props1, props2)
    /\ Range(conflicts) = {"margin-top"}
    /\ Len(conflicts) = 1

(***************************************************************************)
(* Specificity: a caller types selector1 piece by piece and then asks for  *)
(* its specificity, alone or next to the specificity of selector1 with a   *)
(* class or an id appended.                                                *)
(***************************************************************************)
\* the pieces of the overlap analysis, a second pseudo-class, a
\* pseudo-element and a combinator
ScorePieces == Pieces \cup { <<":", "f">>, <<":", ":", "e">>, <<">">> }

ClassNames == { <<"p">>, <<"c">> }

IdNames == { <<"m">>, <<"n">> }

Score ==
    /\ scored = "no"
    /\ scored' = "plain"
    /\ extended' = selector1
    /\ specificity' = calculate_specificity(selector1)
    /\ specificity_ext' = calculate_specificity(selector1)
    /\ UNCHANGED <<overlapVars, conflictVars, groupVars, analysisVars, categoryVars, suggestVars, toolVars, callVars, lruVars, wrapperVars, scanVars>>

ScoreWithClass(c) ==
    /\ scored = "no"
    /\ scored' = "class"
    /\ extended' = selector1 \o <<".">> \o c
    /\ specificity' = calculate_specificity(selector1)
    /\ specificity_ext' = calculate_specificity(selector1 \o <<".">> \o c)
    /\ UNCHANGED <<overlapVars, conflictVars, groupVars, analysisVars, categoryVars, suggestVars, toolVars, callVars, lruVars, wrapperVars, scanVars>>

ScoreWithId(n) ==
    /\ scored = "no"
    /\ scored' = "id"
    /\ extended' = selector1 \o <<"#">> \o n
    /\ specificity' = calculate_specificity(selector1)
    /\ specificity_ext' = calculate_specificity(selector1 \o <<"#">> \o n)
    /\ UNCHANGED <<overlapVars, conflictVars, groupVars, analysisVars, categoryVars, suggestVars, toolVars, callVars, lruVars, wrapperVars, scanVars>>

NextScore ==
    \/ \E p \in ScorePieces : TypePiece(p)
    \/ Score
    \/ \E c \in ClassNames : ScoreWithClass(c)
    \/ \E n \in IdNames : ScoreWithId(n)

SpecScore == Init /\ [][NextScore]_vars

PartsOf(sel) == parse_selector_parts(sel)

AllPartsEmpty(parts) == \A key \in PartKeys : parts[key] = {}

Max(a, b) == IF a > b THEN a ELSE b

\* C11: a selector whose parts are not all empty has
\* type_count = max(1, |types|), and the empty selector yields (0,0,0).
TypeCountFlooredAtOne ==
    scored = "plain" =>
        /\ ~AllPartsEmpty(PartsOf(selector1)) =>
                specificity[3] = Max(1, Cardinality(PartsOf(selector1).types))
        /\ selector1 = <<>> => specificity = <<0, 0, 0>>

\* C11 amended: type_count is the number of distinct type names, so it is
\* at least 1 exactly when the selector names a type, and the empty
\* selector yields (0,0,0).
TypeCountIsNumberOfTypes ==
    scored = "plain" =>
        /\ specificity[3] = Cardinality(PartsOf(selector1).types)
        /\ specificity[3] >= 1 <=> PartsOf(selector1).types # {}
        /\ selector1 = <<>> => specificity = <<0, 0, 0>>

\* an id with a class and no type name scores no type point
TypeCountWitness ==
    /\ scored = "plain"
    /\ selector1 = <<"#", "m", ".", "p">>
    /\ specificity = <<1, 1, 0>>

\* C12: _calculate_specificity returns (distinct ids, distinct classes +
\* attribute predicates + pseudo-classes, distinct type names).
SpecificityCountsParts ==
    scored = "plain" =>
        LET parts == PartsOf(selector1) IN
        /\ specificity[1] = Cardinality(parts.ids)
        /\ specificity[2] = Cardinality(({"class"} \X parts.classes)
                                         \cup ({"attribute"} \X parts.attributes)
                                         \cup ({"pseudo"} \X parts.pseudos))
        /\ specificity[3] = Cardinality(parts.types)

\* 'Button:hover:focus' of the tests: two pseudo-classes on a type
SpecificityCountsWitness ==
    /\ scored = "plain"
    /\ selector1 = <<"B", ":", "h", ":", "f">>
    /\ specificity = <<0, 2, 1>>

\* C13: appending a class never decreases class_count and appending an id
\* never decreases id_count, malformed selectors included.
SpecificityMonotone ==
    /\ scored = "class" => specificity_ext[2] >= specificity[2]
    /\ scored = "id" => specificity_ext[1] >= specificity[1]

\* a class appended after a combinator that ends a selector with two classes
SpecificityMonotoneWitness ==
    /\ scored = "class"
    /\ selector1 = <<".", "p", ".", "q", ">">>
    /\ extended = <<".", "p", ".", "q", ">", ".", "c">>
    /\ specificity[2] = 2
    /\ specificity_ext[2] = 3

(***************************************************************************)
(* PropertyConflictDetector.categorize_conflicts                           *)
(***************************************************************************)
\* self.property_groups, and the order in which the dict lists its keys
property_groups ==
    [positioning |-> {"position", "top", "right", "bottom", "left", "dock", "offset"},
     sizing      |-> {"width", "height", "min-width", "max-width", "min-height", "max-height"},
     spacing     |-> {"margin", "margin-top", "margin-right", "margin-bottom", "margin-left",
                      "padding", "padding-top", "padding-right", "padding-bottom",
                      "padding-left"},
     colors      |-> {"color", "background", "background-color", "border-color", "tint"},
     borders     |-> {"border", "border-top", "border-right", "border-bottom", "border-left",
                      "border-width", "border-style", "border-color"},
     layout      |-> {"display", "layer", "layout", "align", "content-align"},
     text        |-> {"text-align", "text-style", "text-opacity"},
     scrolling   |-> {"scrollbar-color", "scrollbar-size", "overflow", "overflow-x",
                      "overflow-y"}]

group_order ==
    <<"positioning", "sizing", "spacing", "colors", "borders", "layout", "text", "scrolling">>

\* "for group, props in self.property_groups.items(): if conflict in props: ... break",
\* with the for loop's else branch
RECURSIVE GroupOf(_, _)
GroupOf(conflict, k) ==
    IF k > Len(group_order) THEN "other"
    ELSE IF conflict \in property_groups[group_order[k]] THEN group_order[k]
    ELSE GroupOf(conflict, k + 1)

\* categorized[group].append(conflict) on a defaultdict(list)
AppendTo(map, key, value) ==
    [n \in DOMAIN map \cup {key} |->
        IF n = key THEN (IF key \in DOMAIN map THEN Append(map[key], value) ELSE <<value>>)
        ELSE map[n]]

RECURSIVE CategorizeFrom(_, _, _)
CategorizeFrom(names, k, categorized) ==
    IF k > Len(names) THEN categorized
    ELSE CategorizeFrom(names, k + 1, AppendTo(categorized, GroupOf(names[k], 1), names[k]))

categorize_conflicts(names) == CategorizeFrom(names, 1, [n \in {} |-> <<>>])

(***************************************************************************)
(* ConflictResolutionSuggester                                             *)
(*                                                                         *)
(* A suggestion text is a record of its kind and of the values formatted   *)
(* into it; the space-joined text of suggest_resolution is the sequence of *)
(* its sentences.                                                          *)
(***************************************************************************)
Sum3(t) == t[1] + t[2] + t[3]

Abs(x) == IF x < 0 THEN -x ELSE x

\* suggest_resolution with the id test on either selector
suggest_resolution_either_id(conflict) ==
    LET spec1 == Sum3(conflict.specificity1)
        spec2 == Sum3(conflict.specificity2)
        by_specificity ==
            IF spec1 = spec2
            THEN <<[kind |-> "equal_specificity",
                    first |-> conflict.selector1, second |-> conflict.selector2]>>
            ELSE IF Abs(spec1 - spec2) >= 2
            THEN <<[kind |-> "higher_specificity",
                    first |-> IF spec1 > spec2 THEN conflict.selector1 ELSE conflict.selector2,
                    second |-> IF spec1 > spec2 THEN conflict.selector2 ELSE conflict.selector1]>>
            ELSE <<>>
        by_spacing ==
            IF "margin" \in Range(conflict.conflicting_properties)
               /\ "padding" \in Range(conflict.conflicting_properties)
            THEN <<[kind |-> "spacing_system"]>> ELSE <<>>
        by_count ==
            IF Len(conflict.conflicting_properties) > 3
            THEN <<[kind |-> "shared_base"]>> ELSE <<>>
        by_ids ==
            IF "#" \in Range(conflict.selector1) \/ "#" \in Range(conflict.selector2)
            THEN <<[kind |-> "ids_to_classes"]>> ELSE <<>>
        suggestions == by_specificity \o by_spacing \o by_count \o by_ids
    IN  IF suggestions # <<>> THEN suggestions ELSE <<[kind |-> "generic"]>>

suggest_resolution(conflict) ==
    LET spec1 == Sum3(conflict.specificity1)
        spec2 == Sum3(conflict.specificity2)
        by_specificity ==
            IF spec1 = spec2
            THEN <<[kind |-> "equal_specificity",
                    first |-> conflict.selector1, second |-> conflict.selector2]>>
            ELSE IF Abs(spec1 - spec2) >= 2
            THEN <<[kind |-> "higher_specificity",
                    first |-> IF spec1 > spec2 THEN conflict.selector1 ELSE conflict.selector2,
                    second |-> IF spec1 > spec2 THEN conflict.selector2 ELSE conflict.selector1]>>
            ELSE <<>>
        by_spacing ==
            IF "margin" \in Range(conflict.conflicting_properties)
               /\ "padding" \in Range(conflict.conflicting_properties)
            THEN <<[kind |-> "spacing_system"]>> ELSE <<>>
        by_count ==
            IF Len(conflict.conflicting_properties) > 3
            THEN <<[kind |-> "shared_base"]>> ELSE <<>>
        by_ids ==
            IF "#" \in Range(conflict.selector1) /\ "#" \in Range(conflict.selector2)
            THEN <<[kind |-> "ids_to_classes"]>> ELSE <<>>
        suggestions == by_specificity \o by_spacing \o by_count \o by_ids
    IN  IF suggestions # <<>> THEN suggestions ELSE <<[kind |-> "generic"]>>

RECURSIVE Flatten(_)
Flatten(seqs) == IF seqs = <<>> THEN <<>> ELSE Head(seqs) \o Flatten(Tail(seqs))

suggest_selector_improvements(overlap) ==
    LET by_type ==
            IF overlap.overlap_type = "exact"
            THEN <<[kind |-> "duplicate_selectors", selectors |-> overlap.selectors]>>
            ELSE IF overlap.overlap_type = "subset"
            THEN <<[kind |-> "subset_order", selectors |-> overlap.selectors]>>
            ELSE <<>>
        \* zip(overlap.selectors, overlap.specificity_scores) stops at the shorter list
        n == IF Len(overlap.selectors) < Len(overlap.specificity_scores)
             THEN Len(overlap.selectors) ELSE Len(overlap.specificity_scores)
        by_selector ==
            [k \in 1..n |->
                LET spec_sum == Sum3(overlap.specificity_scores[k]) IN
                IF spec_sum > 10
                THEN <<[kind |-> "high_specificity", selector |-> overlap.selectors[k],
                        specificity |-> overlap.specificity_scores[k]]>>
                ELSE IF spec_sum >= 4
                THEN <<[kind |-> "high_specificity_score", selector |-> overlap.selectors[k],
                        score |-> spec_sum]>>
                ELSE <<>>]
    IN  by_type \o Flatten(by_selector)

(***************************************************************************)
(* ConflictDetector.analyze_conflicts                                      *)
(*                                                                         *)
(* The stylesheet parser is an external library: what it yields is the     *)
(* input, a list of rules [selectors, styles, line] or an exception        *)
(* raised while the rules are read.                                        *)
(***************************************************************************)
RECURSIVE LStrip(_)
LStrip(text) == IF text # <<>> /\ Head(text) = " " THEN LStrip(Tail(text)) ELSE text

RECURSIVE RStrip(_)
RStrip(text) ==
    IF text # <<>> /\ text[Len(text)] = " " THEN RStrip(SubSeq(text, 1, Len(text) - 1))
    ELSE text

\* str(rule.selectors).strip(), then the removal of the default "* " prefix
selector_str(text) ==
    LET stripped == RStrip(LStrip(text)) IN
    IF Len(stripped) >= 2 /\ stripped[1] = "*" /\ stripped[2] = " "
    THEN SubSeq(stripped, 3, Len(stripped))
    ELSE stripped

\* the property names for which name.startswith("auto_") holds
AutoNames == {"auto_color"}

\* rule_data of one parsed rule
rule_data_of(rule) ==
    [selectors |-> <<selector_str(rule.selectors)>>,
     properties |-> [n \in DOMAIN rule.styles \ AutoNames |-> rule.styles[n]],
     line |-> rule.line]

\* "if rule_data['properties']: rules.append(rule_data)"
RECURSIVE KeptRules(_, _)
KeptRules(rules, k) ==
    IF k > Len(rules) THEN <<>>
    ELSE LET rule_data == rule_data_of(rules[k]) IN
         (IF DOMAIN rule_data.properties # {} THEN <<rule_data>> ELSE <<>>)
         \o KeptRules(rules, k + 1)

\* list(selector_to_rules.keys()): the selectors in the order of their
\* first rule
RECURSIVE KeysFrom(_, _, _)
KeysFrom(kept, k, keys) ==
    IF k > Len(kept) THEN keys
    ELSE LET sel == kept[k].selectors[1] IN
         KeysFrom(kept, k + 1, IF sel \in Range(keys) THEN keys ELSE Append(keys, sel))

\* selector_to_rules[selector]
RECURSIVE RulesOf(_, _, _)
RulesOf(kept, k, selector) ==
    IF k > Len(kept) THEN <<>>
    ELSE (IF selector \in Range(kept[k].selectors) THEN <<kept[k]>> ELSE <<>>)
         \o RulesOf(kept, k + 1, selector)

\* list.index(x)
IndexOf(seq, x) == CHOOSE k \in 1..Len(seq) : seq[k] = x /\ \A l \in 1..(k - 1) : seq[l] # x

\* the StyleConflict of two rules without the "if conflicts" test
ConflictOf_unconditional(sel1, sel2, spec1, spec2, r1, r2) ==
    LET found == detect_conflicts(r1, r2)
        conflict == [selector1 |-> sel1, selector2 |-> sel2,
                     conflicting_properties |-> found,
                     specificity1 |-> spec1, specificity2 |-> spec2,
                     line1 |-> r1.line, line2 |-> r2.line]
    IN  <<[selector1 |-> sel1, selector2 |-> sel2,
           conflicting_properties |-> found,
           specificity1 |-> spec1, specificity2 |-> spec2,
           line1 |-> r1.line, line2 |-> r2.line,
           resolution_suggestion |-> suggest_resolution(conflict)]>>

\* the StyleConflict of two rules, if detect_conflicts finds one
ConflictOf(sel1, sel2, spec1, spec2, r1, r2) ==
    LET found == detect_conflicts(r1, r2) IN
    IF found # <<>>
    THEN LET conflict == [selector1 |-> sel1, selector2 |-> sel2,
                          conflicting_properties |-> found,
                          specificity1 |-> spec1, specificity2 |-> spec2,
                          line1 |-> r1.line, line2 |-> r2.line]
         IN  <<[selector1 |-> sel1, selector2 |-> sel2,
                conflicting_properties |-> found,
                specificity1 |-> spec1, specificity2 |-> spec2,
                line1 |-> r1.line, line2 |-> r2.line,
                resolution_suggestion |-> suggest_resolution(conflict)]>>
    ELSE <<>>

\* "for r1 in rules1: for r2 in rules2"
RulePairConflicts(sel1, sel2, spec1, spec2, rules1, rules2) ==
    Flatten([a \in 1..Len(rules1) |->
        Flatten([b \in 1..Len(rules2) |->
            ConflictOf(sel1, sel2, spec1, spec2, rules1[a], rules2[b])])])

\* "for i, sel1 in enumerate(overlap.selectors): for sel2 in overlap.selectors[i + 1:]"
GroupConflicts(overlap, kept) ==
    LET sels == overlap.selectors IN
    Flatten([i \in 1..Len(sels) |->
        Flatten([d \in 1..(Len(sels) - i) |->
            LET sel1 == sels[i]
                sel2 == sels[i + d]
            IN  RulePairConflicts(sel1, sel2,
                    overlap.specificity_scores[IndexOf(sels, sel1)],
                    overlap.specificity_scores[IndexOf(sels, sel2)],
                    RulesOf(kept, 1, sel1), RulesOf(kept, 1, sel2))])])

\* "for i, r1 in enumerate(rules_list): for r2 in rules_list[i + 1:]"
DuplicateConflicts(selector, rules_list) ==
    LET spec == calculate_specificity(selector) IN
    Flatten([a \in 1..Len(rules_list) |->
        Flatten([d \in 1..(Len(rules_list) - a) |->
            ConflictOf(selector, selector, spec, spec, rules_list[a], rules_list[a + d])])])

\* [x] * n
Repeat(x, n) == [k \in 1..n |-> x]

\* the duplicate pass without the "if not any(selector in o.selectors ...)" test
RECURSIVE DuplicatePass_always_appending(_, _, _, _)
DuplicatePass_always_appending(keys, k, kept, acc) ==
    IF k > Len(keys) THEN acc
    ELSE LET selector == keys[k]
             rules_list == RulesOf(kept, 1, selector)
         IN  IF Len(rules_list) > 1
             THEN DuplicatePass_always_appending(keys, k + 1, kept,
                    [conflicts |-> acc.conflicts \o DuplicateConflicts(selector, rules_list),
                     overlaps |->
                        Append(acc.overlaps,
                                [selectors |-> Repeat(selector, Len(rules_list)),
                                 overlap_type |-> "exact",
                                 specificity_scores |->
                                    Repeat(calculate_specificity(selector), Len(rules_list))])])
             ELSE DuplicatePass_always_appending(keys, k + 1, kept, acc)

\* "for selector, rules_list in selector_to_rules.items()": acc holds the
\* conflicts and the overlap list, which is result.overlapping_selectors
\* and the local "overlaps" at once (one list object)
RECURSIVE DuplicatePass(_, _, _, _)
DuplicatePass(keys, k, kept, acc) ==
    IF k > Len(keys) THEN acc
    ELSE LET selector == keys[k]
             rules_list == RulesOf(kept, 1, selector)
         IN  IF Len(rules_list) > 1
             THEN DuplicatePass(keys, k + 1, kept,
                    [conflicts |-> acc.conflicts \o DuplicateConflicts(selector, rules_list),
                     overlaps |->
                        IF ~\E o \in 1..Len(acc.overlaps) :
                                selector \in Range(acc.overlaps[o].selectors)
                        THEN Append(acc.overlaps,
                                [selectors |-> Repeat(selector, Len(rules_list)),
                                 overlap_type |-> "exact",
                                 specificity_scores |->
                                    Repeat(calculate_specificity(selector), Len(rules_list))])
                        ELSE acc.overlaps])
             ELSE DuplicatePass(keys, k + 1, kept, acc)

\* the four tests with the test for several ids made first
SpecificityIssue_ids_first(selector) ==
    LET spec == calculate_specificity(selector)
        spec_sum == Sum3(spec)
        entry(issue) == <<[selector |-> selector, specificity |-> spec,
                           score |-> spec_sum, issue |-> issue]>>
    IN  IF spec[1] > 1 THEN entry("Multiple IDs in selector - avoid if possible")
        ELSE IF spec_sum > 10 THEN entry("High specificity - consider simplifying")
        ELSE IF spec[1] >= 1 /\ spec_sum >= 3
             THEN entry("ID with additional selectors - consider simplifying")
        ELSE IF spec_sum >= 5 THEN entry("Moderately high specificity - review if needed")
        ELSE <<>>

\* the four tests of "Check for specificity issues", first match wins
SpecificityIssue(selector) ==
    LET spec == calculate_specificity(selector)
        spec_sum == Sum3(spec)
        entry(issue) == <<[selector |-> selector, specificity |-> spec,
                           score |-> spec_sum, issue |-> issue]>>
    IN  IF spec_sum > 10 THEN entry("High specificity - consider simplifying")
        ELSE IF spec[1] > 1 THEN entry("Multiple IDs in selector - avoid if possible")
        ELSE IF spec[1] >= 1 /\ spec_sum >= 3
             THEN entry("ID with additional selectors - consider simplifying")
        ELSE IF spec_sum >= 5 THEN entry("Moderately high specificity - review if needed")
        ELSE <<>>

\* "all_conflicts.extend(conflict.conflicting_properties)" for every conflict
conflict_names(style_conflicts) ==
    Flatten([c \in 1..Len(style_conflicts) |-> style_conflicts[c].conflicting_properties])

\* "if all_conflicts: result.property_conflicts = categorize_conflicts(...)"
property_conflicts_of(all_conflicts) ==
    IF all_conflicts # <<>> THEN categorize_conflicts(all_conflicts)
    ELSE EmptyResult.property_conflicts

\* the result with the suggestions made for a copy of the overlap list
\* taken before the duplicate pass, which holds no repeated selector
result_of_copied_overlaps(all_selectors, collected) ==
    LET before == SelectSeq(collected.overlaps,
                            LAMBDA o : \E i \in 1..Len(o.selectors) : o.selectors[i] # o.selectors[1])
    IN  [conflicts |-> collected.conflicts,
         overlapping_selectors |-> collected.overlaps,
         resolution_suggestions |->
            Flatten([o \in 1..Len(before) |-> suggest_selector_improvements(before[o])]),
         property_conflicts |-> property_conflicts_of(conflict_names(collected.conflicts)),
         specificity_issues |->
            Flatten([k \in 1..Len(all_selectors) |-> SpecificityIssue(all_selectors[k])])]

\* the result once the conflicts and the overlaps are collected: the
\* categories, the suggestions of every overlap, the specificity issues
result_of(all_selectors, collected) ==
    [conflicts |-> collected.conflicts,
     overlapping_selectors |-> collected.overlaps,
     resolution_suggestions |->
        Flatten([o \in 1..Len(collected.overlaps) |->
                    suggest_selector_improvements(collected.overlaps[o])]),
     property_conflicts |-> property_conflicts_of(conflict_names(collected.conflicts)),
     specificity_issues |->
        Flatten([k \in 1..Len(all_selectors) |-> SpecificityIssue(all_selectors[k])])]

\* the conflicts of the overlap groups, then the duplicate pass
collect_conflicts(kept, all_selectors, overlaps_found) ==
    result_of(all_selectors,
        DuplicatePass(all_selectors, 1, kept,
            [conflicts |->
                Flatten([g \in 1..Len(overlaps_found) |->
                            GroupConflicts(overlaps_found[g], kept)]),
             overlaps |-> overlaps_found]))

\* "overlaps = self.overlap_analyzer.find_overlapping_groups(all_selectors)"
find_overlaps(kept, all_selectors) ==
    collect_conflicts(kept, all_selectors, find_overlapping_groups(all_selectors))

\* "all_selectors = list(selector_to_rules.keys())"
index_rules(kept) == find_overlaps(kept, KeysFrom(kept, 1, <<>>))

\* the body of the try block once the parser has yielded all rules
analysis_of(rules) == index_rules(KeptRules(rules, 1))

\* the exception classes of the first except clause
ParserErrors == {"StylesheetError", "DeclarationError", "UnresolvedVariableError"}

\* the except clauses without the "parsing_errors" entry
failure_of_without_parsing_errors(error) ==
    IF error.kind \in ParserErrors
    THEN [EmptyResult EXCEPT
            !.resolution_suggestions =
                <<[kind |-> "css_parsing_error", message |-> error.message]>>]
    ELSE [EmptyResult EXCEPT
            !.resolution_suggestions =
                <<[kind |-> "analysis_error", message |-> error.message]>>]

\* the two except clauses: the parser raises while the rules are read,
\* before anything is stored in the result, so the value returned is the
\* fresh ConflictAnalysisResult with the message added
failure_of(error) ==
    IF error.kind \in ParserErrors
    THEN [EmptyResult EXCEPT
            !.resolution_suggestions =
                <<[kind |-> "css_parsing_error", message |-> error.message]>>,
            !.property_conflicts = [n \in {"parsing_errors"} |-> <<error.message>>]]
    ELSE [EmptyResult EXCEPT
            !.resolution_suggestions =
                <<[kind |-> "analysis_error", message |-> error.message]>>]

NoError == [kind |-> "none", message |-> ""]

analyze_conflicts(rules, error) ==
    IF error.kind = "none" THEN analysis_of(rules) ELSE failure_of(error)

(***************************************************************************)
(* Analysis: the parser yields the rules of a stylesheet one by one; then  *)
(* analyze_conflicts returns, normally or after an exception.              *)
(***************************************************************************)
\* the scope prefix the parser puts before every selector
ScopePrefix == <<"*", " ">>

\* the selectors of the rules: two types, a descendant selector of both and
\* a refinement of it
AnalysisSelectors ==
    { <<"B">>, <<"L">>, <<"B", " ", "L">>, <<"B", " ", "L", ".", "p">> }

\* the declarations of a rule: two colours, or only an automatic property
RuleStyles ==
    { [n \in {"color"} |-> "1"], [n \in {"color"} |-> "2"], [n \in {"auto_color"} |-> "1"] }

ErrorKinds == ParserErrors \cup {"Exception"}

ErrorMessages == {"unexpected token", "undefined variable"}

YieldRule(sel, styles) ==
    /\ status = "idle"
    /\ Len(stylesheet) < MaxRules
    /\ stylesheet' = Append(stylesheet,
            [selectors |-> ScopePrefix \o sel, styles |-> styles,
             line |-> Len(stylesheet) + 1])
    /\ UNCHANGED <<raised, status, result, summary,
                   conflictVars, overlapVars, groupVars, scoreVars, categoryVars, suggestVars, toolVars, callVars, lruVars, wrapperVars, scanVars>>

Analyze ==
    /\ status = "idle"
    /\ status' = "done"
    /\ result' = analyze_conflicts(stylesheet, NoError)
    /\ summary' = summary_of(result')
    /\ UNCHANGED <<stylesheet, raised, conflictVars, overlapVars, groupVars, scoreVars, categoryVars, suggestVars, toolVars, callVars, lruVars, wrapperVars, scanVars>>

AnalyzeFails(kind, message) ==
    /\ status = "idle"
    /\ raised' = [kind |-> kind, message |-> message]
    /\ status' = IF kind \in ParserErrors THEN "parse_error" ELSE "error"
    /\ result' = analyze_conflicts(stylesheet, [kind |-> kind, message |-> message])
    /\ summary' = summary_of(result')
    /\ UNCHANGED <<stylesheet, conflictVars, overlapVars, groupVars, scoreVars, categoryVars, suggestVars, toolVars, callVars, lruVars, wrapperVars, scanVars>>

NextAnalysis ==
    \/ \E sel \in AnalysisSelectors, styles \in RuleStyles : YieldRule(sel, styles)
    \/ Analyze

SpecAnalysis == Init /\ [][NextAnalysis]_vars

\* the selectors of a stylesheet whose reading fails
FailureSelectors == { <<"B">>, <<"B", " ", "L">> }

NextFailure ==
    \/ \E sel \in FailureSelectors, styles \in RuleStyles : YieldRule(sel, styles)
    \/ \E kind \in ErrorKinds, message \in ErrorMessages : AnalyzeFails(kind, message)

SpecFailure == Init /\ [][NextFailure]_vars

\* selectors of every specificity class: eleven components with two ids,
\* two ids alone, an id with two classes, an id with one class, a lone
\* id, five components without an id, four components
IssueSelectors ==
    { <<"#", "a", "#", "b", ".", "c", ".", "d", ".", "e", ".", "f", ".", "g", ".", "h",
        ".", "i", ".", "j", " ", "B">>,
      <<"#", "a", "#", "b">>,
      <<"#", "a", ".", "p", ".", "q">>,
      <<"#", "a", ".", "p">>,
      <<"#", "a">>,
      <<"B", ".", "p", ".", "q", ".", "r", ".", "s">>,
      <<"B", ".", "p", ".", "q", ".", "r">> }

IssueStyles == { [n \in {"color"} |-> "1"] }

NextIssues ==
    \/ \E sel \in IssueSelectors, styles \in IssueStyles : YieldRule(sel, styles)
    \/ Analyze

SpecIssues == Init /\ [][NextIssues]_vars

(***************************************************************************)
(* Claims about analyze_conflicts.  The rules are told apart by their      *)
(* place in the stylesheet, which is what "line" holds.                    *)
(***************************************************************************)
\* the rules of a selector that have a property left after the automatic
\* ones are dropped
RulesWithProperties(sel) ==
    { k \in 1..Len(stylesheet) :
        /\ selector_str(stylesheet[k].selectors) = sel
        /\ DOMAIN stylesheet[k].styles \ AutoNames # {} }

IndexedSelectors ==
    { sel \in { selector_str(stylesheet[k].selectors) : k \in 1..Len(stylesheet) } :
        RulesWithProperties(sel) # {} }

\* C14: every StyleConflict of a finished analysis names at least one
\* conflicting property
ConflictsNameProperties ==
    status = "done" =>
        \A c \in 1..Len(result.conflicts) :
            result.conflicts[c].conflicting_properties # <<>>

\* a conflict between two selectors, a conflict between two rules of one
\* selector, and two rules of overlapping selectors that agree on every value
ConflictsNamePropertiesWitness ==
    /\ status = "done"
    /\ \E c \in 1..Len(result.conflicts) :
            result.conflicts[c].selector1 # result.conflicts[c].selector2
    /\ \E c \in 1..Len(result.conflicts) :
            result.conflicts[c].selector1 = result.conflicts[c].selector2
    /\ \E i, j \in 1..Len(stylesheet) :
            /\ i < j
            /\ stylesheet[i].styles = stylesheet[j].styles
            /\ DOMAIN stylesheet[i].styles \ AutoNames # {}
            /\ analyze_overlap(selector_str(stylesheet[i].selectors),
                               selector_str(stylesheet[j].selectors)) # "none"

\* C15: every StyleConflict is between two selectors that analyze_overlap
\* does not classify as "none"
ConflictsOnlyBetweenOverlapping ==
    status = "done" =>
        \A c \in 1..Len(result.conflicts) :
            analyze_overlap(result.conflicts[c].selector1,
                            result.conflicts[c].selector2) # "none"

\* C16: no two StyleConflicts of a result are about the same unordered
\* pair of rules
RulePairReportedOnce ==
    status = "done" =>
        \A a, b \in 1..Len(result.conflicts) :
            a # b =>
                {result.conflicts[a].line1, result.conflicts[a].line2}
                    # {result.conflicts[b].line1, result.conflicts[b].line2}

\* C17 as stated: every selector with more than one rule is listed by an
\* overlap of type "exact"
DuplicatedSelectorHasExactOverlap ==
    status = "done" =>
        \A sel \in IndexedSelectors :
            Cardinality(RulesWithProperties(sel)) > 1 =>
                \E o \in 1..Len(result.overlapping_selectors) :
                    /\ result.overlapping_selectors[o].overlap_type = "exact"
                    /\ sel \in Range(result.overlapping_selectors[o].selectors)

\* the groups find_overlapping_groups returns for the indexed selectors
FoundGroups ==
    find_overlapping_groups(KeysFrom(KeptRules(stylesheet, 1), 1, <<>>))

InFoundGroup(sel) ==
    \E g \in 1..Len(FoundGroups) : sel \in Range(FoundGroups[g].selectors)

\* the overlaps of type "exact" that list sel once for each of its rules
ExactOverlapsOf(sel) ==
    { o \in 1..Len(result.overlapping_selectors) :
        /\ result.overlapping_selectors[o].overlap_type = "exact"
        /\ result.overlapping_selectors[o].selectors
                = Repeat(sel, Cardinality(RulesWithProperties(sel))) }

\* C17, amended: a selector with more than one rule has one "exact" overlap
\* listing it once per rule when no group of find_overlapping_groups lists
\* it, and none when such a group lists it
ExactOverlapForUngroupedDuplicates ==
    status = "done" =>
        \A sel \in IndexedSelectors :
            Cardinality(RulesWithProperties(sel)) > 1 =>
                IF InFoundGroup(sel)
                THEN ExactOverlapsOf(sel) = {}
                ELSE Cardinality(ExactOverlapsOf(sel)) = 1

\* a selector with two rules outside every group, next to a group of others
ExactOverlapWitness ==
    /\ status = "done"
    /\ FoundGroups # <<>>
    /\ \E sel \in IndexedSelectors :
            /\ Cardinality(RulesWithProperties(sel)) > 1
            /\ ~InFoundGroup(sel)
            /\ Cardinality(ExactOverlapsOf(sel)) = 1

\* C18: when the parser raises a StylesheetError, a DeclarationError or an
\* UnresolvedVariableError, analyze_conflicts returns a result whose only
\* suggestion carries the message, whose property_conflicts has the
\* "parsing_errors" entry with the message, and whose conflicts, overlaps and
\* specificity issues are empty
ParserErrorIsReported ==
    status = "parse_error" =>
        /\ Len(result.resolution_suggestions) = 1
        /\ result.resolution_suggestions[1] =
                [kind |-> "css_parsing_error", message |-> raised.message]
        /\ "parsing_errors" \in DOMAIN result.property_conflicts
        /\ result.property_conflicts["parsing_errors"] = <<raised.message>>
        /\ result.conflicts = <<>>
        /\ result.overlapping_selectors = <<>>
        /\ result.specificity_issues = <<>>

\* the parser raises after it has yielded two rules that conflict
ParserErrorWitness ==
    /\ status = "parse_error"
    /\ raised.kind = "UnresolvedVariableError"
    /\ analysis_of(stylesheet).conflicts # <<>>
    /\ analysis_of(stylesheet).overlapping_selectors # <<>>

\* the four conditions of the specificity check, in their order
IssueConditions(sel) ==
    LET spec == calculate_specificity(sel)
        total == spec[1] + spec[2] + spec[3]
    IN  << total > 10,
           spec[1] > 1,
           spec[1] >= 1 /\ total >= 3,
           total >= 5 >>

IssueTexts ==
    << "High specificity - consider simplifying",
       "Multiple IDs in selector - avoid if possible",
       "ID with additional selectors - consider simplifying",
       "Moderately high specificity - review if needed" >>

IssueEntriesOf(sel) ==
    { k \in 1..Len(result.specificity_issues) :
        result.specificity_issues[k].selector = sel }

\* C19: an indexed selector has at most one specificity issue; it has one
\* exactly when one of the four conditions holds, and the issue is the text
\* of the first condition that holds
SpecificityIssueIsFirstMatch ==
    status = "done" =>
        \A sel \in IndexedSelectors :
            LET matching == { i \in 1..4 : IssueConditions(sel)[i] } IN
            /\ Cardinality(IssueEntriesOf(sel)) <= 1
            /\ (IssueEntriesOf(sel) # {}) <=> (matching # {})
            /\ \A k \in IssueEntriesOf(sel) :
                    \A i \in matching :
                        (\A j \in matching : i <= j) =>
                            result.specificity_issues[k].issue = IssueTexts[i]

\* a selector meeting the first and the second condition, one meeting the
\* second only, and one meeting none
SpecificityIssueWitness ==
    /\ status = "done"
    /\ \E sel \in IndexedSelectors :
            /\ IssueConditions(sel)[1] /\ IssueConditions(sel)[2]
            /\ IssueEntriesOf(sel) # {}
    /\ \E sel \in IndexedSelectors :
            /\ ~IssueConditions(sel)[1] /\ IssueConditions(sel)[2]
            /\ IssueEntriesOf(sel) # {}
    /\ \E sel \in IndexedSelectors :
            /\ \A i \in 1..4 : ~IssueConditions(sel)[i]
            /\ IssueEntriesOf(sel) = {}

\* C20: the summary counts the conflicts, the overlaps and the specificity
\* issues of the result, has_issues holds exactly when there is a conflict
\* or an overlap, and without indexed rules the counts are 0 and has_issues
\* is false
SummaryCountsResult ==
    /\ summary.total_conflicts = Len(result.conflicts)
    /\ summary.total_overlaps = Len(result.overlapping_selectors)
    /\ summary.total_specificity_issues = Len(result.specificity_issues)
    /\ summary.has_issues
            <=> (Len(result.conflicts) > 0 \/ Len(result.overlapping_selectors) > 0)
    /\ (status = "done" /\ IndexedSelectors = {}) =>
            /\ summary.total_conflicts = 0
            /\ summary.total_overlaps = 0
            /\ summary.total_specificity_issues = 0
            /\ ~summary.has_issues

\* an analysis that finds overlaps and no conflict
SummaryWitness ==
    /\ status = "done"
    /\ result.conflicts = <<>>
    /\ Len(result.overlapping_selectors) > 0
    /\ summary.has_issues

(***************************************************************************)
(* Categories: a caller collects property names and hands the list to      *)
(* categorize_conflicts.                                                   *)
(***************************************************************************)
MaxNames == 3      \* names in the list handed to categorize_conflicts

\* names of several categories, the name the table lists twice, and names
\* the table does not list
NamePool ==
    {"dock", "width", "margin", "color", "border-color", "border", "layout",
     "text-align", "overflow", "opacity", "unknown-property"}

engineVars == <<conflictVars, overlapVars, groupVars, scoreVars, analysisVars>>

AddName(name) ==
    /\ ~categorize_returned
    /\ Len(property_names) < MaxNames
    /\ property_names' = Append(property_names, name)
    /\ UNCHANGED <<categories, categorize_returned, engineVars, suggestVars, toolVars, callVars, lruVars, wrapperVars, scanVars>>

Categorize ==
    /\ ~categorize_returned
    /\ categorize_returned' = TRUE
    /\ categories' = categorize_conflicts(property_names)
    /\ UNCHANGED <<property_names, engineVars, suggestVars, toolVars, callVars, lruVars, wrapperVars, scanVars>>

NextCategories ==
    \/ \E name \in NamePool : AddName(name)
    \/ Categorize

SpecCategories == Init /\ [][NextCategories]_vars

CategoryNames == DOMAIN property_groups

\* the names of a bucket of the returned dictionary (none when the key is absent)
Bucket(key) == IF key \in DOMAIN categories THEN Range(categories[key]) ELSE {}

\* C21: the table is a partition, and categorize_conflicts puts every input
\* name into the bucket of the category that lists it, or into "other" when
\* no category lists it
CategoriesPartitionNames ==
    categorize_returned =>
        \A k \in 1..Len(property_names) :
            LET name == property_names[k]
                listing == { g \in CategoryNames : name \in property_groups[g] }
            IN  /\ Cardinality(listing) <= 1
                /\ \A g \in CategoryNames : (name \in Bucket(g)) <=> (g \in listing)
                /\ (name \in Bucket("other")) <=> (listing = {})

\* how often a name occurs in the lists of result.property_conflicts
CategorizedCount(name) ==
    LET cats == result.property_conflicts
        positions == { q \in UNION { {g} \X (1..Len(cats[g])) : g \in DOMAIN cats } :
                        cats[q[1]][q[2]] = name }
    IN  Cardinality(positions)

ConflictingNames ==
    UNION { Range(result.conflicts[c].conflicting_properties) :
                c \in 1..Len(result.conflicts) }

\* C22: after a successful analysis every property name of some
\* StyleConflict occurs exactly once in the category lists of
\* property_conflicts, and no other name occurs there
PropertyConflictsAreTheUnion ==
    status = "done" =>
        /\ \A name \in ConflictingNames : CategorizedCount(name) = 1
        /\ \A g \in DOMAIN result.property_conflicts :
                Range(result.property_conflicts[g]) \subseteq ConflictingNames

(***************************************************************************)
(* Suggestions: a caller fills a StyleConflict and hands it to             *)
(* suggest_resolution.                                                     *)
(***************************************************************************)
MaxConflicting == 4      \* names in conflicting_properties

SuggestSelectors == { <<"#", "a">>, <<"B", "#", "b">>, <<"B">> }

SuggestSpecificities == { <<1, 0, 0>>, <<0, 0, 1>>, <<1, 0, 1>>, <<1, 1, 1>> }

\* the conflicting names in the order a caller adds them
ConflictingOrder == <<"margin", "color", "padding", "width", "height", "dock">>

ChooseSelectors(sel1, sel2) ==
    /\ ~suggested
    /\ style_conflict.selector1 = <<>>
    /\ style_conflict' = [style_conflict EXCEPT !.selector1 = sel1, !.selector2 = sel2]
    /\ UNCHANGED <<suggestion, suggested, engineVars, categoryVars, toolVars, callVars, lruVars, wrapperVars, scanVars>>

ChooseSpecificities(spec1, spec2) ==
    /\ ~suggested
    /\ style_conflict.specificity1 = <<0, 0, 0>>
    /\ style_conflict' = [style_conflict EXCEPT !.specificity1 = spec1, !.specificity2 = spec2]
    /\ UNCHANGED <<suggestion, suggested, engineVars, categoryVars, toolVars, callVars, lruVars, wrapperVars, scanVars>>

AddConflicting(k) ==
    /\ ~suggested
    /\ Len(style_conflict.conflicting_properties) < MaxConflicting
    /\ \A j \in 1..k : ConflictingOrder[j] \notin Range(style_conflict.conflicting_properties)
    /\ style_conflict' = [style_conflict EXCEPT
            !.conflicting_properties = <<ConflictingOrder[k]>> \o @]
    /\ UNCHANGED <<suggestion, suggested, engineVars, categoryVars, toolVars, callVars, lruVars, wrapperVars, scanVars>>

Suggest ==
    /\ ~suggested
    /\ suggested' = TRUE
    /\ suggestion' = suggest_resolution(style_conflict)
    /\ UNCHANGED <<style_conflict, engineVars, categoryVars, toolVars, callVars, lruVars, wrapperVars, scanVars>>

NextSuggest ==
    \/ \E sel1, sel2 \in SuggestSelectors : ChooseSelectors(sel1, sel2)
    \/ \E spec1, spec2 \in SuggestSpecificities : ChooseSpecificities(spec1, spec2)
    \/ \E k \in 1..Len(ConflictingOrder) : AddConflicting(k)
    \/ Suggest

SpecSuggest == Init /\ [][NextSuggest]_vars

SpecificitySum(t) == t[1] + t[2] + t[3]

\* the five conditions of the claim, for the conflict handed in
SuggestConditions ==
    LET sum1 == SpecificitySum(style_conflict.specificity1)
        sum2 == SpecificitySum(style_conflict.specificity2)
        names == Range(style_conflict.conflicting_properties)
    IN  << sum1 = sum2,
           sum1 - sum2 >= 2 \/ sum2 - sum1 >= 2,
           "margin" \in names /\ "padding" \in names,
           Len(style_conflict.conflicting_properties) > 3,
           "#" \in Range(style_conflict.selector1) /\ "#" \in Range(style_conflict.selector2) >>

SuggestKinds ==
    <<"equal_specificity", "higher_specificity", "spacing_system", "shared_base",
      "ids_to_classes">>

HoldingConditions == { i \in 1..5 : SuggestConditions[i] }

\* the k-th condition that holds
NthHolding(k) ==
    CHOOSE i \in HoldingConditions : Cardinality({ j \in HoldingConditions : j < i }) = k - 1

\* C23: suggest_resolution returns the generic text exactly when none of
\* the five conditions holds; otherwise it returns one sentence for every
\* condition that holds, in their order, and the sentence of a sum
\* difference of 2 or more names the selector with the larger sum first
SuggestionsFollowConditions ==
    suggested =>
        /\ (suggestion = <<[kind |-> "generic"]>>) <=> (HoldingConditions = {})
        /\ HoldingConditions # {} =>
            /\ Len(suggestion) = Cardinality(HoldingConditions)
            /\ \A k \in 1..Len(suggestion) : suggestion[k].kind = SuggestKinds[NthHolding(k)]
            /\ \A k \in 1..Len(suggestion) :
                    suggestion[k].kind = "higher_specificity" =>
                        LET larger_first ==
                                SpecificitySum(style_conflict.specificity1)
                                    > SpecificitySum(style_conflict.specificity2)
                        IN  /\ suggestion[k].first =
                                    IF larger_first THEN style_conflict.selector1
                                    ELSE style_conflict.selector2
                            /\ suggestion[k].second =
                                    IF larger_first THEN style_conflict.selector2
                                    ELSE style_conflict.selector1
            /\ \A k \in 1..Len(suggestion) :
                    suggestion[k].kind = "equal_specificity" =>
                        /\ suggestion[k].first = style_conflict.selector1
                        /\ suggestion[k].second = style_conflict.selector2

\* the second selector has the larger sum by 2, and the three other
\* conditions hold as well
SuggestionsWitness ==
    /\ suggested
    /\ HoldingConditions = {2, 3, 4, 5}
    /\ SpecificitySum(style_conflict.specificity2)
            > SpecificitySum(style_conflict.specificity1)
    /\ style_conflict.selector1 # style_conflict.selector2
    /\ Len(suggestion) = 4

(***************************************************************************)
(* The detect_style_conflicts tool (tools/analysis_tools.py): a caller     *)
(* writes a stylesheet, rule by rule, and hands it to the tool.            *)
(***************************************************************************)
ToolSelectors == { <<"B">>, <<"L">> }

\* the dictionary the tool builds: three empty lists, whatever the text is
detect_style_conflicts(css) ==
    [n \in {"conflicts", "overlapping_selectors", "resolution_suggestions"} |-> <<>>]

WriteRule(sel, styles) ==
    /\ ~tool_returned
    /\ Len(css_content) < MaxRules
    /\ css_content' = Append(css_content,
            [selectors |-> sel, styles |-> styles, line |-> Len(css_content) + 1])
    /\ UNCHANGED <<response, tool_returned, engineVars, categoryVars, suggestVars, callVars, lruVars, wrapperVars, scanVars>>

CallTool ==
    /\ ~tool_returned
    /\ tool_returned' = TRUE
    /\ response' = detect_style_conflicts(css_content)
    /\ UNCHANGED <<css_content, engineVars, categoryVars, suggestVars, callVars, lruVars, wrapperVars, scanVars>>

NextTool ==
    \/ \E sel \in ToolSelectors, styles \in RuleStyles : WriteRule(sel, styles)
    \/ CallTool

SpecTool == Init /\ [][NextTool]_vars

\* the properties two rules of one selector declare with different values
DifferingProperties ==
    { name \in UNION { DOMAIN css_content[k].styles : k \in 1..Len(css_content) } :
        \E i, j \in 1..Len(css_content) :
            /\ i < j
            /\ css_content[i].selectors = css_content[j].selectors
            /\ name \in DOMAIN css_content[i].styles \cap DOMAIN css_content[j].styles
            /\ css_content[i].styles[name] # css_content[j].styles[name] }

\* C24: the tool's dictionary has the keys conflicts, overlapping_selectors,
\* resolution_suggestions and summary, and when two rules of one selector
\* declare different values for a property the summary counts a conflict,
\* has_issues is true and a conflict names that property
ToolReportsConflicts ==
    tool_returned =>
        /\ {"conflicts", "overlapping_selectors", "resolution_suggestions", "summary"}
                \subseteq DOMAIN response
        /\ \A name \in DifferingProperties :
                /\ response["summary"].total_conflicts > 0
                /\ response["summary"].has_issues
                /\ \E c \in 1..Len(response["conflicts"]) :
                        name \in Range(response["conflicts"][c].conflicting_properties)

(***************************************************************************)
(* Several calls of analyze_conflicts on one ConflictDetector, from two    *)
(* threads.  A call creates its result object (line 513), then fills it:   *)
(* conflicts, suggestions and specificity issues are appended to the       *)
(* object's lists, overlapping_selectors and property_conflicts are        *)
(* assigned.  The detector's own attributes (the two tables and the three  *)
(* helper objects) are never written.                                      *)
(***************************************************************************)
RuleOf(sel, value, line) ==
    [selectors |-> ScopePrefix \o sel, styles |-> [n \in {"color"} |-> value], line |-> line]

\* the stylesheets the calls are made with
CallInputs ==
    { <<>>,
      << RuleOf(<<"B">>, "1", 1), RuleOf(<<"B">>, "2", 2) >>,
      << RuleOf(<<"B">>, "1", 1), RuleOf(<<"B", " ", "L">>, "2", 2) >>,
      << RuleOf(<<"#", "a", ".", "p", ".", "q">>, "1", 1) >> }

\* ConflictAnalysisResult() with the lists of the last result object, as
\* with list defaults shared by all instances
ConflictAnalysisResult_shared(earlier) ==
    IF earlier = <<>> THEN EmptyResult ELSE earlier[Len(earlier)].result

\* ConflictAnalysisResult(): every field has a default_factory, so the
\* object is empty whatever results exist already
ConflictAnalysisResult(earlier) == EmptyResult

\* the try block run on a result object: what it appends and what it assigns
fill_result(res, analysis) ==
    [conflicts |-> res.conflicts \o analysis.conflicts,
     overlapping_selectors |-> analysis.overlapping_selectors,
     resolution_suggestions |-> res.resolution_suggestions \o analysis.resolution_suggestions,
     property_conflicts |->
        IF analysis.conflicts # <<>> THEN analysis.property_conflicts
        ELSE res.property_conflicts,
     specificity_issues |-> res.specificity_issues \o analysis.specificity_issues]

BeginCall(t, rules) ==
    /\ calls[t].pc = "idle"
    /\ Len(returned) + Cardinality({ u \in Threads : calls[u].pc # "idle" }) < MaxCalls
    /\ calls' = [calls EXCEPT ![t] =
            [pc |-> "running", rules |-> rules, result |-> ConflictAnalysisResult(returned)]]
    /\ UNCHANGED <<returned, engineVars, categoryVars, suggestVars, toolVars, lruVars, wrapperVars, scanVars>>

RunCall(t) ==
    /\ calls[t].pc = "running"
    /\ calls' = [calls EXCEPT ![t].pc = "filled",
                              ![t].result = fill_result(@, analysis_of(calls[t].rules))]
    /\ UNCHANGED <<returned, engineVars, categoryVars, suggestVars, toolVars, lruVars, wrapperVars, scanVars>>

ReturnCall(t) ==
    /\ calls[t].pc = "filled"
    /\ returned' = Append(returned, [rules |-> calls[t].rules, result |-> calls[t].result])
    /\ calls' = [calls EXCEPT ![t] = [pc |-> "idle", rules |-> <<>>, result |-> EmptyResult]]
    /\ UNCHANGED <<engineVars, categoryVars, suggestVars, toolVars, lruVars, wrapperVars, scanVars>>

NextCalls ==
    \/ \E t \in Threads, rules \in CallInputs : BeginCall(t, rules)
    \/ \E t \in Threads : RunCall(t)
    \/ \E t \in Threads : ReturnCall(t)

SpecCalls == Init /\ [][NextCalls]_vars

NextRecords ==
    \/ /\ stylesheet = <<>> /\ status = "idle"
       /\ NextGroups
    \/ /\ selectors = <<>> /\ ~grouped
       /\ NextAnalysis

SpecRecords == Init /\ [][NextRecords]_vars

WellFormedOverlap(o) ==
    /\ Len(o.selectors) >= 2
    /\ Len(o.specificity_scores) = Len(o.selectors)
    /\ \A i \in 1..Len(o.selectors) :
            o.specificity_scores[i] = calculate_specificity(o.selectors[i])

\* C26: every SelectorOverlap that find_overlapping_groups returns or that
\* an analysis result holds has at least 2 selectors and, position by
\* position, the specificity of each of them
OverlapRecordsAreWellFormed ==
    /\ grouped => \A g \in 1..Len(overlaps) : WellFormedOverlap(overlaps[g])
    /\ status = "done" =>
            \A g \in 1..Len(result.overlapping_selectors) :
                WellFormedOverlap(result.overlapping_selectors[g])

\* an analysis result with a group of selectors of different specificity
\* and an "exact" overlap added by the duplicate pass
OverlapRecordsWitness ==
    /\ status = "done"
    /\ \E g \in 1..Len(result.overlapping_selectors) :
            LET o == result.overlapping_selectors[g] IN
            /\ o.overlap_type # "exact"
            /\ o.specificity_scores[1] # o.specificity_scores[2]
    /\ \E g \in 1..Len(result.overlapping_selectors) :
            result.overlapping_selectors[g].overlap_type = "exact"

(***************************************************************************)
(* LRUCache (utils/cache.py).  The OrderedDict is the sequence of its      *)
(* entries, first position first.  Every method body runs under the        *)
(* cache's lock; put is two steps under the lock, the store and the        *)
(* removal of the oldest entry.  Whether the clock has passed an entry's   *)
(* time-to-live is an input of get.                                        *)
(***************************************************************************)
MaxSize == 2      \* largest max_size a cache is constructed with
MaxUses == 4      \* puts and get hits on one cache

CacheKeys == {"a", "b", "c"}

CacheValues == {"x", "y"}

KeysOf(entries) == { entries[k].key : k \in 1..Len(entries) }

\* the position of a key of the OrderedDict
PositionOf(entries, key) == CHOOSE k \in 1..Len(entries) : entries[k].key = key

\* del self._cache[key]
Without(entries, key) ==
    LET k == PositionOf(entries, key) IN
    SubSeq(entries, 1, k - 1) \o SubSeq(entries, k + 1, Len(entries))

\* self._cache.move_to_end(key)
move_to_end(entries, key) ==
    Append(Without(entries, key), entries[PositionOf(entries, key)])

\* self._cache[key] = (value, current_time): an existing key keeps its position
store(entries, key, value) ==
    IF key \in KeysOf(entries)
    THEN [entries EXCEPT ![PositionOf(entries, key)].value = value]
    ELSE Append(entries, [key |-> key, value |-> value])

\* LRUCache.get without the move to the end
lru_get_without_move(entries, key, expired) ==
    IF key \notin KeysOf(entries) THEN [entries |-> entries, value |-> "None"]
    ELSE IF expired THEN [entries |-> Without(entries, key), value |-> "None"]
    ELSE [entries |-> entries, value |-> entries[PositionOf(entries, key)].value]

\* LRUCache.get with default None: the dictionary afterwards and the value returned
lru_get(entries, key, expired) ==
    IF key \notin KeysOf(entries) THEN [entries |-> entries, value |-> "None"]
    ELSE IF expired THEN [entries |-> Without(entries, key), value |-> "None"]
    ELSE [entries |-> move_to_end(entries, key),
          value |-> entries[PositionOf(entries, key)].value]

\* LRUCache.put up to the capacity test
lru_put_store(entries, key, value) ==
    IF key \in KeysOf(entries) THEN move_to_end(store(entries, key, value), key)
    ELSE store(entries, key, value)

\* "if len(self._cache) > self.max_size: self._cache.popitem(last=False)"
lru_put_evict(entries, limit) ==
    IF Len(entries) > limit THEN Tail(entries) ELSE entries

\* LRUCache.put as a whole
lru_put(entries, key, value, limit) ==
    IF key \in KeysOf(entries) THEN lru_put_store(entries, key, value)
    ELSE lru_put_evict(lru_put_store(entries, key, value), limit)

\* the last position of a key in the log of uses (0 when it was never used)
LastUse(log, key) ==
    IF \E i \in 1..Len(log) : log[i] = key
    THEN CHOOSE i \in 1..Len(log) : log[i] = key /\ \A j \in (i + 1)..Len(log) : log[j] # key
    ELSE 0

\* the key among keys whose last use is the earliest
LeastRecentlyUsed(log, keys) ==
    IF keys = {} THEN "none"
    ELSE CHOOSE k \in keys : \A j \in keys : LastUse(log, k) <= LastUse(log, j)

otherVars == <<engineVars, categoryVars, suggestVars, toolVars, callVars>>

Construct(n, t) ==
    /\ ~constructed
    /\ constructed' = TRUE
    /\ max_size' = n
    /\ ttl' = t
    /\ UNCHANGED <<lru, lock, putting, uses, last_put, otherVars, wrapperVars, scanVars>>

PutStore(t, key, value) ==
    /\ constructed /\ lock = 0
    /\ Len(uses) < MaxUses
    /\ lock' = t
    /\ putting' = [key |-> key, keys_before |-> KeysOf(lru),
                   lru_before |-> LeastRecentlyUsed(uses, KeysOf(lru))]
    /\ lru' = lru_put_store(lru, key, value)
    /\ uses' = Append(uses, key)
    /\ UNCHANGED <<constructed, max_size, ttl, last_put, otherVars, wrapperVars, scanVars>>

PutFinish(t) ==
    /\ lock = t
    /\ lock' = 0
    /\ lru' = IF putting.key \in putting.keys_before THEN lru
              ELSE lru_put_evict(lru, max_size)
    /\ last_put' = [key |-> putting.key,
                    new |-> putting.key \notin putting.keys_before,
                    full_before |-> Cardinality(putting.keys_before) = max_size,
                    evicted |-> (putting.keys_before \cup {putting.key}) \ KeysOf(lru'),
                    lru_before |-> putting.lru_before]
    /\ putting' = [key |-> "none", keys_before |-> {}, lru_before |-> "none"]
    /\ UNCHANGED <<constructed, max_size, ttl, uses, otherVars, wrapperVars, scanVars>>

Get(t, key, expired) ==
    /\ constructed /\ lock = 0
    /\ expired => (ttl = "set" /\ key \in KeysOf(lru))
    /\ (key \in KeysOf(lru) /\ ~expired) => Len(uses) < MaxUses
    /\ lru' = lru_get(lru, key, expired).entries
    /\ uses' = IF key \in KeysOf(lru) /\ ~expired THEN Append(uses, key) ELSE uses
    /\ UNCHANGED <<constructed, max_size, ttl, lock, putting, last_put, otherVars, wrapperVars, scanVars>>

Delete(t, key) ==
    /\ constructed /\ lock = 0
    /\ lru' = IF key \in KeysOf(lru) THEN Without(lru, key) ELSE lru
    /\ UNCHANGED <<constructed, max_size, ttl, lock, putting, uses, last_put, otherVars, wrapperVars, scanVars>>

Clear(t) ==
    /\ constructed /\ lock = 0
    /\ lru' = <<>>
    /\ UNCHANGED <<constructed, max_size, ttl, lock, putting, uses, last_put, otherVars, wrapperVars, scanVars>>

NextCache ==
    \/ \E n \in 1..MaxSize, t \in {"none", "set"} : Construct(n, t)
    \/ \E t \in Threads, key \in CacheKeys, value \in CacheValues : PutStore(t, key, value)
    \/ \E t \in Threads : PutFinish(t)
    \/ \E t \in Threads, key \in CacheKeys, expired \in BOOLEAN : Get(t, key, expired)
    \/ \E t \in Threads, key \in CacheKeys : Delete(t, key)
    \/ \E t \in Threads : Clear(t)

SpecCache == Init /\ [][NextCache]_vars

\* C27: outside a put the cache holds at most max_size entries; the
\* entries stand in the order of their last use (put or get hit); and a put
\* of a new key into a full cache removes exactly the entry whose last use
\* is the earliest
CacheIsBoundedLRU ==
    constructed =>
        /\ lock = 0 => Len(lru) <= max_size
        /\ \A i, j \in 1..Len(lru) :
                i < j => LastUse(uses, lru[i].key) < LastUse(uses, lru[j].key)
        /\ (last_put.new /\ last_put.full_before) =>
                last_put.evicted = {last_put.lru_before}
        /\ \A i, j \in 1..Len(lru) : i # j => lru[i].key # lru[j].key

\* put a, put b, a get hit on a, then a put of a third key that removes b
CacheWitness ==
    /\ max_size = 2 /\ lock = 0
    /\ last_put.new /\ last_put.full_before
    /\ Len(uses) = 4
    /\ uses[3] = uses[1] /\ uses[2] # uses[1]
    /\ last_put.evicted = {uses[2]}
    /\ KeysOf(lru) = {uses[1], uses[4]}

(***************************************************************************)
(* cached(cache): CachedFunctionWrapper.__call__ looks the key up, and on  *)
(* a miss runs the function and puts the result.  The three steps of a     *)
(* call interleave with those of the other thread; each cache method is    *)
(* one step (it runs under the cache's lock).                              *)
(***************************************************************************)
MaxExecutions == 3      \* runs of the wrapped function per argument

\* cache_key(arg): the md5 digest of repr(arg); the two arguments have the
\* digests "a" and "b"
cache_key(arg) == IF arg = "p" THEN "a" ELSE "b"

\* the wrapped function: it returns "x" for "p" and None for "q"
wrapped_func(arg) == IF arg = "p" THEN "x" ELSE "None"

noCacheConfig == <<constructed, max_size, ttl, lock, putting, uses, last_put>>

\* cached(cache) on a cache without time-to-live
Decorate(n) ==
    /\ ~constructed
    /\ constructed' = TRUE
    /\ max_size' = n
    /\ UNCHANGED <<ttl, lru, lock, putting, uses, last_put, wrapperVars, otherVars, scanVars>>

\* "key = cache_key(...)", "cached_result = self.cache.get(key)" and the
\* test "if cached_result is not None"
WrapperLookup(t, arg) ==
    /\ constructed
    /\ wrapper[t].pc = "idle"
    /\ executions[arg] < MaxExecutions
    /\ LET got == lru_get(lru, cache_key(arg), FALSE) IN
        /\ lru' = got.entries
        /\ wrapper' = [wrapper EXCEPT ![t] =
                [pc |-> IF got.value # "None" THEN "return" ELSE "execute",
                 arg |-> arg,
                 late |-> arg \in completed,
                 result |-> got.value]]
    /\ UNCHANGED <<completed, executions, noCacheConfig, otherVars, scanVars>>

\* "result = self._func(*args, **kwargs)"
WrapperExecute(t) ==
    /\ wrapper[t].pc = "execute"
    /\ executions' = [executions EXCEPT ![wrapper[t].arg] = @ + 1]
    /\ wrapper' = [wrapper EXCEPT ![t].pc = "put", ![t].result = wrapped_func(wrapper[t].arg)]
    /\ UNCHANGED <<completed, lru, noCacheConfig, otherVars, scanVars>>

\* "self.cache.put(key, result)"
WrapperPut(t) ==
    /\ wrapper[t].pc = "put"
    /\ lru' = lru_put(lru, cache_key(wrapper[t].arg), wrapper[t].result, max_size)
    /\ wrapper' = [wrapper EXCEPT ![t].pc = "return"]
    /\ UNCHANGED <<completed, executions, noCacheConfig, otherVars, scanVars>>

\* "return result"
WrapperReturn(t) ==
    /\ wrapper[t].pc = "return"
    /\ completed' = completed \cup {wrapper[t].arg}
    /\ wrapper' = [wrapper EXCEPT ![t].pc = "idle"]
    /\ UNCHANGED <<executions, lru, noCacheConfig, otherVars, scanVars>>

NextWrapper ==
    \/ \E n \in MaxSize..MaxSize : Decorate(n)
    \/ \E t \in Threads, arg \in WrappedArgs : WrapperLookup(t, arg)
    \/ \E t \in Threads : WrapperExecute(t)
    \/ \E t \in Threads : WrapperPut(t)
    \/ \E t \in Threads : WrapperReturn(t)

SpecWrapper == Init /\ [][NextWrapper]_vars

\* C28: a call that starts after a call with the same arguments has
\* returned, while the entry is still in the cache, does not run the
\* function again
LaterCallsUseTheCache ==
    \A t \in Threads :
        (wrapper[t].late /\ wrapper[t].pc # "idle"
            /\ cache_key(wrapper[t].arg) \in KeysOf(lru)) =>
                wrapper[t].pc = "return" /\ wrapper[t].result = wrapped_func(wrapper[t].arg)

(***************************************************************************)
(* Claims about the suggestions of an analysis result                      *)
(***************************************************************************)
RECURSIVE Concatenation(_)
Concatenation(lists) ==
    IF lists = <<>> THEN <<>> ELSE Head(lists) \o Concatenation(Tail(lists))

\* C29: after a successful analysis resolution_suggestions is the
\* concatenation of suggest_selector_improvements over the overlaps of the
\* result, in their order, so that every "exact" overlap has its
\* duplicate-selectors suggestion and every "subset" overlap its ordering
\* suggestion
SuggestionsCoverEveryOverlap ==
    status = "done" =>
        /\ result.resolution_suggestions =
                Concatenation([g \in 1..Len(result.overlapping_selectors) |->
                    suggest_selector_improvements(result.overlapping_selectors[g])])
        /\ \A g \in 1..Len(result.overlapping_selectors) :
                LET o == result.overlapping_selectors[g] IN
                /\ o.overlap_type = "exact" =>
                        [kind |-> "duplicate_selectors", selectors |-> o.selectors]
                            \in Range(result.resolution_suggestions)
                /\ o.overlap_type = "subset" =>
                        [kind |-> "subset_order", selectors |-> o.selectors]
                            \in Range(result.resolution_suggestions)

\* a subset group found by the Overlap Analyzer, followed by an "exact"
\* overlap that the duplicate pass added
SuggestionsCoverWitness ==
    /\ status = "done"
    /\ Len(result.overlapping_selectors) = 2
    /\ result.overlapping_selectors[1].overlap_type = "subset"
    /\ result.overlapping_selectors[2].overlap_type = "exact"
    /\ Len(result.resolution_suggestions) = 2
    /\ result.resolution_suggestions[2].kind = "duplicate_selectors"

(***************************************************************************)
(* SelectorOverlapAnalyzer._parse_selector_parts, statement by statement   *)
(***************************************************************************)
MaxChars == 4      \* characters of the selector handed to the parser

ScanChars == {"a", "#", ".", ":", "[", "]", " ", ">"}

\* the body of the while loop with an unterminated "[" left for the next
\* iteration to look at again
scan_iteration_seeking_close(part, i, current_type, parts) ==
    LET char == part[i] IN
    CASE char = "#" ->
            LET j == NameEnd(part, i + 1) IN
            [i |-> j, current_type |-> <<>>,
             parts |-> [FlushType(parts, current_type) EXCEPT !.ids = @ \cup {Slice(part, i + 1, j)}]]
      [] char = "." ->
            LET j == NameEnd(part, i + 1) IN
            [i |-> j, current_type |-> <<>>,
             parts |-> [FlushType(parts, current_type) EXCEPT !.classes = @ \cup {Slice(part, i + 1, j)}]]
      [] char = ":" ->
            IF i + 1 <= Len(part) /\ part[i + 1] = ":"
            THEN [i |-> NameEnd(part, i + 2), current_type |-> <<>>,
                  parts |-> FlushType(parts, current_type)]
            ELSE LET j == NameEnd(part, i + 1) IN
                 [i |-> j, current_type |-> <<>>,
                  parts |-> [FlushType(parts, current_type) EXCEPT !.pseudos = @ \cup {Slice(part, i + 1, j)}]]
      [] char = "[" ->
            LET j == FindClose(part, i) IN
            IF j # 0
            THEN [i |-> j + 1, current_type |-> <<>>,
                  parts |-> [FlushType(parts, current_type) EXCEPT !.attributes = @ \cup {Slice(part, i, j + 1)}]]
            ELSE [i |-> i, current_type |-> <<>>,
                  parts |-> FlushType(parts, current_type)]
      [] OTHER ->
            [i |-> i + 1, current_type |-> Append(current_type, char), parts |-> parts]

\* One iteration of "while i < len(space_part)": the index, the accumulated
\* type name and the parts after the iteration that starts at position i.
scan_iteration(part, i, current_type, parts) ==
    LET char == part[i] IN
    CASE char = "#" ->
            LET j == NameEnd(part, i + 1) IN
            [i |-> j, current_type |-> <<>>,
             parts |-> [FlushType(parts, current_type) EXCEPT !.ids = @ \cup {Slice(part, i + 1, j)}]]
      [] char = "." ->
            LET j == NameEnd(part, i + 1) IN
            [i |-> j, current_type |-> <<>>,
             parts |-> [FlushType(parts, current_type) EXCEPT !.classes = @ \cup {Slice(part, i + 1, j)}]]
      [] char = ":" ->
            IF i + 1 <= Len(part) /\ part[i + 1] = ":"
            THEN \* pseudo-element: skipped
                 [i |-> NameEnd(part, i + 2), current_type |-> <<>>,
                  parts |-> FlushType(parts, current_type)]
            ELSE LET j == NameEnd(part, i + 1) IN
                 [i |-> j, current_type |-> <<>>,
                  parts |-> [FlushType(parts, current_type) EXCEPT !.pseudos = @ \cup {Slice(part, i + 1, j)}]]
      [] char = "[" ->
            LET j == FindClose(part, i) IN
            IF j # 0
            THEN [i |-> j + 1, current_type |-> <<>>,
                  parts |-> [FlushType(parts, current_type) EXCEPT !.attributes = @ \cup {Slice(part, i, j + 1)}]]
            ELSE [i |-> i + 1, current_type |-> <<>>,
                  parts |-> FlushType(parts, current_type)]
      [] OTHER ->
            [i |-> i + 1, current_type |-> Append(current_type, char), parts |-> parts]

nonScanVars == <<otherVars, lruVars, wrapperVars>>

\* the caller writes the selector
TypeChar(c) ==
    /\ scan_pc = "typing"
    /\ Len(scan_input) < MaxChars
    /\ scan_input' = Append(scan_input, c)
    /\ UNCHANGED <<scan_rest, space_part, scan_pc, scan_i, scan_prev, scan_type,
                   scan_parts, iterations, nonScanVars>>

\* entry of _parse_selector_parts: the empty parts and the list of tokens
ParseCall ==
    /\ scan_pc = "typing"
    /\ scan_pc' = "for"
    /\ scan_parts' = EmptyParts
    /\ scan_rest' = Split(ReplaceCombinators(scan_input))
    /\ UNCHANGED <<scan_input, space_part, scan_i, scan_prev, scan_type, iterations,
                   nonScanVars>>

\* "for space_part in space_parts: current_type = ''; i = 0"
NextToken ==
    /\ scan_pc = "for"
    /\ scan_rest # <<>>
    /\ space_part' = Head(scan_rest)
    /\ scan_rest' = Tail(scan_rest)
    /\ scan_type' = <<>>
    /\ scan_i' = 1
    /\ scan_prev' = 0
    /\ iterations' = 0
    /\ scan_pc' = "while"
    /\ UNCHANGED <<scan_input, scan_parts, nonScanVars>>

\* one iteration of the while loop
ScanIteration ==
    /\ scan_pc = "while"
    /\ scan_i <= Len(space_part)
    /\ LET after == scan_iteration(space_part, scan_i, scan_type, scan_parts) IN
        /\ scan_i' = after.i
        /\ scan_type' = after.current_type
        /\ scan_parts' = after.parts
    /\ scan_prev' = scan_i
    /\ iterations' = iterations + 1
    /\ UNCHANGED <<scan_input, scan_rest, space_part, scan_pc, nonScanVars>>

\* the while condition fails: "if current_type: parts['types'].add(current_type)"
EndToken ==
    /\ scan_pc = "while"
    /\ scan_i > Len(space_part)
    /\ scan_parts' = FlushType(scan_parts, scan_type)
    /\ scan_pc' = "for"
    /\ UNCHANGED <<scan_input, scan_rest, space_part, scan_i, scan_prev, scan_type,
                   iterations, nonScanVars>>

\* "return parts"
ParseReturn ==
    /\ scan_pc = "for"
    /\ scan_rest = <<>>
    /\ scan_pc' = "returned"
    /\ UNCHANGED <<scan_input, scan_rest, space_part, scan_i, scan_prev, scan_type,
                   scan_parts, iterations, nonScanVars>>

NextScan ==
    \/ \E c \in ScanChars : TypeChar(c)
    \/ ParseCall
    \/ NextToken
    \/ ScanIteration
    \/ EndToken
    \/ ParseReturn

SpecScan == Init /\ [][NextScan]_vars

\* C30: _parse_selector_parts terminates and returns the parts without
\* raising for every selector: every iteration of the scan over a token
\* leaves the index strictly larger than it found it and never beyond the
\* position after the last character, so a token of n characters is scanned
\* in at most n iterations, and the parts returned are those of the parser
ScanAlwaysAdvances ==
    /\ scan_pc = "while" =>
        /\ scan_i \in 1..(Len(space_part) + 1)
        /\ iterations > 0 => scan_i > scan_prev
        /\ iterations < scan_i
    /\ scan_pc = "returned" =>
        /\ DOMAIN scan_parts = PartKeys
        /\ scan_parts = parse_selector_parts(scan_input)

\* "[::#" scanned to its end: a "[" without "]", a "::" and a "#" that ends
\* the token, three iterations for four characters
ScanWitness ==
    /\ scan_pc = "returned"
    /\ scan_input = <<"[", ":", ":", "#">>
    /\ iterations = 3
    /\ scan_parts.ids = {<<>>}

====
